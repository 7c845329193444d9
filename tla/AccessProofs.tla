----------------------------- MODULE AccessProofs -----------------------------
(***************************************************************************)
(* Proofs about who may do what on this host.  The sharing of folders      *)
(* (Shares), for every set of users and folders: Samba serves what is      *)
(* granted and, after a change, all of it; access is changed by            *)
(* administrators, of whom one remains; folders keep their owners and      *)
(* directories.  And accounts and sessions (Accounts), for any number of   *)
(* accounts, sessions, clients and requests.                               *)
(***************************************************************************)
EXTENDS Shares, Accounts, FiniteSetTheorems, WellFoundedInduction, TLAPS

-----------------------------------------------------------------------------
(* What the tables and the disk hold.                                      *)
UserRow   == [admin : BOOLEAN, on : BOOLEAN]
FolderRow == [owner : Users \cup {None}, quota : 0..MaxQuota, hard : 0..MaxQuota]
Entry     == [f : Folders, u : Users, w : BOOLEAN]
TablesFit ==
  /\ user \in [Users -> {None} \cup UserRow] /\ grant \subseteq Folders \X Users
  /\ folder \in [Folders -> {None} \cup FolderRow] /\ cap \in [Users -> 0..MaxQuota]
  /\ kernel \in [Folders -> 0..MaxQuota] /\ dir \subseteq Folders

(* What may be asked, and what whoever holds the mutex goes by.            *)
Orders ==
  [do : {"access"}, by : Users, user : Users, admin : BOOLEAN, on : BOOLEAN, folders : SUBSET Folders]
  \cup [do : {"create"}, by : Users, f : Folders, owner : Users \cup {None}]
  \cup [do : {"delete"}, by : Users, f : Folders]
  \cup [do : {"manage"}, by : Users, f : Folders, quota : 0..MaxQuota, enforce : BOOLEAN,
        users : SUBSET Users]
  \cup [do : {"quota"}, by : Users, user : Users, quota : 0..MaxQuota]
  \cup [do : {"apply"}, by : Users]
Reconciliation == [do |-> "reconcile"]
Places == {"idle", "stop", "empty", "work", "mkdir", "undo", "commit", "remake",
           "build", "write", "test"}
WorkFits ==
  /\ op \in [ask : {op.ask}, at : Places, active : BOOLEAN, model : {op.model}, old : {op.old}]
  /\ op.at = "idle" => op = Idle
  /\ op.at # "idle" => op.ask \in Orders \cup {Reconciliation}
  /\ op.at # "idle" /\ op.ask.do # "reconcile" => Administers(op.ask.by)
  /\ op.at # "idle" /\ op.ask.do = "apply" => op.at \in {"build", "write", "test"}
  /\ op.at \in {"stop", "empty", "work", "commit"} /\ op.ask.do = "manage" => op.ask.f \in Existing
  /\ op.model \subseteq Entry /\ (op.old # None => op.old \subseteq Entry)
  /\ waiting \subseteq Orders

(* What Samba has, and what calls may bring it that Core gave up on.       *)
LateCall == [at : {"stop", "empty", "write", "test"}, model : SUBSET Entry,
             old : {None} \cup SUBSET Entry]
SambaFits ==
  /\ smbd \in BOOLEAN /\ astray \in BOOLEAN /\ late \subseteq LateCall
  /\ conf # None => conf \subseteq Entry

(* From the suspension to the new configuration Samba serves nothing, and  *)
(* has no configuration where it had none, unless something came late.     *)
Changing == {"work", "mkdir", "undo", "commit", "remake"}
NothingServed ==
  /\ op.at = "empty" => op.active
  /\ ~astray =>
       /\ op.at \in Changing \/ (op.at = "build" /\ op.ask.do # "apply") => conf \in {None, {}}
       /\ op.at \in Changing \cup {"build"} /\ ~op.active => conf = None

(* What is granted now, and what must be served of it.                     *)
Granted == {e \in Entry : e.f \in Existing /\ MayReach(e.f, e.u)}
Due == {e \in Shared : e.u \notin fresh}
ServedFits ==
  ~astray =>
  /\ conf # None => conf \subseteq Granted
  /\ op.at \in {"write", "test"} => op.model \subseteq Granted /\ Due \subseteq op.model
  /\ op.at = "test" => conf = op.model /\ (op.old # None => op.old \subseteq Granted)

HistoryFits == reconciling \in BOOLEAN /\ warned \in BOOLEAN /\ restarts \in Nat

(* The inductive invariant.                                                *)
SharesInv ==
  /\ TablesFit /\ WorkFits /\ SambaFits /\ NothingServed /\ ServedFits /\ HistoryFits
  /\ SharesAreComplete /\ AdministratorRemains

-----------------------------------------------------------------------------
(* What may be reached is a grant of a user who is there to a folder that  *)
(* is; whether it can be written is asked of the tables and the kernel.    *)
LEMMA WritableIsBoolean == ASSUME NEW f PROVE Writable(f) \in BOOLEAN
BY DEF Writable, PersonallySafe

LEMMA SharedIs ==
  ASSUME NEW e
  PROVE  e \in Shared <=> \E f \in Existing, u \in Users :
                            MayReach(f, u) /\ e = [f |-> f, u |-> u, w |-> Writable(f)]
<1>1. ASSUME e \in Shared
      PROVE  \E f \in Existing, u \in Users :
               MayReach(f, u) /\ e = [f |-> f, u |-> u, w |-> Writable(f)]
  <2>1. PICK x \in {y \in Existing \X Users : MayReach(y[1], y[2])} :
          e = [f |-> x[1], u |-> x[2], w |-> Writable(x[1])]
    BY <1>1 DEF Shared
  <2> QED BY <2>1
<1>2. ASSUME NEW f \in Existing, NEW u \in Users, MayReach(f, u),
             e = [f |-> f, u |-> u, w |-> Writable(f)]
      PROVE  e \in Shared
  <2>1. /\ <<f, u>> \in {y \in Existing \X Users : MayReach(y[1], y[2])}
        /\ e = [f |-> <<f, u>>[1], u |-> <<f, u>>[2], w |-> Writable(<<f, u>>[1])]
    BY <1>2
  <2> QED BY <2>1 DEF Shared
<1> QED BY <1>1, <1>2

(* The same of the step that follows.                                      *)
LEMMA SharedIsThen ==
  ASSUME NEW e
  PROVE  (e \in Shared <=> \E f \in Existing, u \in Users :
                             MayReach(f, u) /\ e = [f |-> f, u |-> u, w |-> Writable(f)])'
<1>1. e \in Shared <=> \E f \in Existing, u \in Users :
                          MayReach(f, u) /\ e = [f |-> f, u |-> u, w |-> Writable(f)]
  BY SharedIs
<1> QED BY <1>1, PTL

LEMMA SharedIsGranted == Shared \subseteq Granted
<1> SUFFICES ASSUME NEW e \in Shared
             PROVE  e \in Granted
  OBVIOUS
<1>1. PICK f \in Existing, u \in Users :
        MayReach(f, u) /\ e = [f |-> f, u |-> u, w |-> Writable(f)]
  BY SharedIs
<1> QED BY <1>1, WritableIsBoolean DEF Granted, Entry, Existing

-----------------------------------------------------------------------------
(* How a change goes on.                                                   *)
OpIs(at, active, model, old) ==
  op' = [ask |-> op.ask, at |-> at, active |-> active, model |-> model, old |-> old]
Goes(at) ==
  /\ OpIs(at, op.active, op.model, op.old)
  /\ UNCHANGED <<waiting, reconciling, fresh, warned, restarts>>

LEMMA GoesOn ==
  ASSUME SharesInv, NEW at, GoOn(at)
  PROVE  Goes(at)
BY DEF GoOn, SharesInv, WorkFits, history, OpIs, Goes

(* Whoever asked is an administrator as long as no user changes.           *)
LEMMA AskerStays ==
  ASSUME op'.ask = op.ask, UNCHANGED user
  PROVE  Administers(op.ask.by)' = Administers(op.ask.by)
BY DEF Administers, Enabled

(* A change of tables or directories while nothing is served.              *)
LEMMA ChangeKeeps ==
  ASSUME SharesInv, TablesFit', AdministratorRemains', UNCHANGED samba, op.at \in Changing,
         NEW at \in Changing \cup {"build"}, Goes(at),
         op.ask.do # "reconcile" => Administers(op.ask.by)',
         op.ask.do = "manage" /\ at \in {"work", "commit"} => op.ask.f \in Existing'
  PROVE  SharesInv'
<1>1. /\ op' = [ask |-> op.ask, at |-> at, active |-> op.active, model |-> op.model, old |-> op.old]
      /\ UNCHANGED <<waiting, reconciling, fresh, warned, restarts>>
  BY DEF Goes, OpIs
<1>2. /\ op.at \notin {"idle", "build", "write", "test"} /\ at \notin {"idle", "write", "test"}
      /\ at \in Places
  BY DEF Changing, Places
<1>3. /\ op.active \in BOOLEAN /\ op.ask \in Orders \cup {Reconciliation} /\ op.ask.do # "apply"
      /\ waiting \subseteq Orders
  BY <1>2 DEF SharesInv, WorkFits
<1>4. WorkFits'
  <2>1. op'.at = at /\ op'.ask = op.ask /\ waiting' = waiting
    BY <1>1
  <2>2. op' \in [ask : {op'.ask}, at : Places, active : BOOLEAN, model : {op'.model}, old : {op'.old}]
    BY <1>1, <1>2, <1>3
  <2>3. op'.ask.do = "manage" /\ op'.at \in {"stop", "empty", "work", "commit"} => op'.ask.f \in Existing'
    BY <2>1, <1>2 DEF Changing
  <2>4. op'.model \subseteq Entry /\ (op'.old # None => op'.old \subseteq Entry)
    BY <1>1 DEF SharesInv, WorkFits
  <2> QED BY <1>2, <1>3, <2>1, <2>2, <2>3, <2>4 DEF WorkFits
<1>5. UNCHANGED <<conf, smbd, late, astray>> /\ SambaFits'
  BY DEF samba, SharesInv, SambaFits
<1>6. NothingServed'
  <2>1. astray \/ (conf \in {None, {}} /\ (~op.active => conf = None))
    BY DEF SharesInv, NothingServed
  <2>2. op'.at # "empty"
    BY <1>1 DEF Changing
  <2> QED BY <1>1, <1>5, <2>1, <2>2 DEF NothingServed
<1>7. ServedFits'
  <2>1. astray \/ conf \in {None, {}}
    BY DEF SharesInv, NothingServed
  <2>2. op'.at \notin {"write", "test"}
    BY <1>1, <1>2
  <2> QED BY <1>5, <2>1, <2>2 DEF ServedFits
<1>8. HistoryFits'
  BY <1>1 DEF SharesInv, HistoryFits
<1>9. SharesAreComplete'
  <2>1. op' # Idle
    BY <1>1, <1>2 DEF Idle, Work
  <2> QED BY <2>1 DEF SharesAreComplete, Settled
<1> QED BY <1>4, <1>5, <1>6, <1>7, <1>8, <1>9 DEF SharesInv

(* A change ends, or is cut off, and it is known that it is not complete.  *)
LEMMA EndKeeps ==
  ASSUME SharesInv, TablesFit', AdministratorRemains', op' = Idle, waiting' \subseteq waiting,
         HistoryFits', SambaFits', astray' \/ conf' = None \/ conf' \subseteq Granted',
         warned' \/ reconciling' \/ SharesAreComplete'
  PROVE  SharesInv'
<1>1. /\ op'.at = "idle" /\ op'.active = FALSE
      /\ op' \in [ask : {op'.ask}, at : Places, active : BOOLEAN, model : {op'.model}, old : {op'.old}]
  BY DEF Idle, Work, Places
<1>2. WorkFits'
  <2>1. Idle' = Idle /\ op'.model = {} /\ op'.old = None
    BY DEF Idle, Work
  <2> QED BY <1>1, <2>1 DEF SharesInv, WorkFits
<1>3. NothingServed' /\ ServedFits'
  BY <1>1 DEF NothingServed, ServedFits, Changing
<1>4. SharesAreComplete'
  BY DEF SharesAreComplete, Settled
<1> QED BY <1>2, <1>3, <1>4 DEF SharesInv

(* Tables and directories stay as they are.                                *)
LEMMA TablesStay ==
  ASSUME SharesInv, UNCHANGED <<tables, disk>>
  PROVE  /\ TablesFit' /\ AdministratorRemains' /\ Granted' = Granted /\ Shared' = Shared
         /\ Existing' = Existing /\ \A u : Administers(u)' = Administers(u)
<1>1. UNCHANGED <<user, grant, folder, cap, dir, kernel>>
  BY DEF tables, disk
<1>2. TablesFit'
  BY <1>1 DEF SharesInv, TablesFit
<1>3. Existing' = Existing /\ Enabled' = Enabled
  BY <1>1 DEF Existing, Enabled
<1>4. \A u : Administers(u)' = Administers(u)
  BY <1>1, <1>3 DEF Administers
<1>5. AdministratorRemains'
  BY <1>4 DEF AdministratorRemains, Administrators, SharesInv
<1>6. \A f, u : MayReach(f, u)' = MayReach(f, u)
  BY <1>1, <1>3 DEF MayReach
<1>7. \A f : Writable(f)' = Writable(f)
  BY <1>1 DEF Writable, PersonallySafe, Budget, OwnedBy, Verified, Existing
<1>8. Granted' = Granted
  BY <1>3, <1>6 DEF Granted
<1>9. Shared' = Shared
  BY <1>3, <1>6, <1>7 DEF Shared
<1> QED BY <1>2, <1>3, <1>4, <1>5, <1>8, <1>9

(* Where only the mutex changes hands, and the requests that wait.         *)
LEMMA OthersStay ==
  ASSUME SharesInv, UNCHANGED <<tables, disk, samba, op, reconciling, history>>, waiting' \subseteq Orders
  PROVE  SharesInv'
<1>1. /\ TablesFit' /\ AdministratorRemains' /\ Granted' = Granted /\ Shared' = Shared
      /\ Existing' = Existing /\ \A u : Administers(u)' = Administers(u)
  BY TablesStay
<1>2. UNCHANGED <<smbd, conf, late, astray, op, reconciling, fresh, warned, cuts, restarts>>
  BY DEF samba, history
<1>3. WorkFits'
  <2>1. Idle' = Idle
    BY DEF Idle, Work
  <2>2. Administers(op.ask.by)' = Administers(op.ask.by)
    BY <1>2, AskerStays DEF tables
  <2> QED BY <1>1, <1>2, <2>1, <2>2 DEF SharesInv, WorkFits
<1>4. NothingServed' /\ SambaFits' /\ HistoryFits'
  BY <1>2 DEF SharesInv, NothingServed, SambaFits, HistoryFits
<1>5. Due' = Due
  BY <1>1, <1>2 DEF Due
<1>6. ServedFits'
  BY <1>1, <1>2, <1>5 DEF SharesInv, ServedFits
<1>7. SharesAreComplete'
  BY <1>1, <1>2, <1>5 DEF SharesInv, SharesAreComplete, Settled, Complete, Due, Idle, Work
<1> QED BY <1>1, <1>3, <1>4, <1>6, <1>7 DEF SharesInv

-----------------------------------------------------------------------------
(* What a request says.                                                    *)
LEMMA RequestSays ==
  ASSUME NEW r \in Orders \cup {Reconciliation}
  PROVE  /\ r.do = "access" => /\ r.by \in Users /\ r.user \in Users /\ r.folders \subseteq Folders
                               /\ r.admin \in BOOLEAN /\ r.on \in BOOLEAN
         /\ r.do = "create" => r.f \in Folders /\ r.owner \in Users \cup {None}
         /\ r.do = "delete" => r.f \in Folders
         /\ r.do = "manage" => /\ r.f \in Folders /\ r.quota \in 0..MaxQuota
                               /\ r.enforce \in BOOLEAN /\ r.users \subseteq Users
         /\ r.do = "quota" => r.user \in Users /\ r.quota \in 0..MaxQuota
BY DEF Orders, Reconciliation

(* Who changes the tables was asked by an administrator.                   *)
LEMMA AtWork ==
  ASSUME SharesInv, op.at \in Changing
  PROVE  /\ op.ask \in Orders \cup {Reconciliation}
         /\ op.ask.do # "reconcile" => Administers(op.ask.by)
BY DEF SharesInv, WorkFits, Changing

LEMMA AskStays ==
  ASSUME NEW at, Goes(at)
  PROVE  op'.ask = op.ask
BY DEF Goes, OpIs

(* A change of folders and grants: no user changes.                        *)
LEMMA FolderChangeKeeps ==
  ASSUME SharesInv, TablesFit', UNCHANGED <<user, samba>>, op.at \in Changing,
         NEW at \in Changing \cup {"build"}, Goes(at),
         op.ask.do = "manage" /\ at \in {"work", "commit"} => op.ask.f \in Existing'
  PROVE  SharesInv'
<1>2. op'.ask = op.ask
  BY AskStays
<1>3. Administers(op.ask.by)' = Administers(op.ask.by)
  BY <1>2, AskerStays
<1>4. AdministratorRemains'
  BY DEF SharesInv, AdministratorRemains, Administrators, Administers, Enabled
<1> QED BY <1>2, <1>3, <1>4, AtWork, ChangeKeeps

(* The row of a user.                                                      *)
LEMMA SetUserAccessKeeps ==
  ASSUME SharesInv, SetUserAccess
  PROVE  SharesInv'
<1> DEFINE u == op.ask.user
           row == [admin |-> op.ask.admin, on |-> op.ask.on]
           kept == OwnedBy(op.ask.user)
           made == {g \in grant : g[2] # u} \cup Pairs((op.ask.folders \cap Existing) \cup kept, {u})
<1>1. /\ op.ask.do = "access" /\ op.at = "work" /\ GoOn("build") /\ UNCHANGED <<folder, cap, disk, samba>>
      /\ op.at \in Changing /\ "build" \in Places
  BY DEF SetUserAccess, SetUserAccessOf, Doing, Changing, Places
<1>2. /\ Administers(op.ask.by) /\ op.ask.by \in Users /\ u \in Users /\ op.ask.folders \subseteq Folders
      /\ op.ask.admin \in BOOLEAN /\ op.ask.on \in BOOLEAN
  BY <1>1, AtWork, RequestSays
<1>3. op'.ask = op.ask
  BY <1>1, AskStays, GoesOn
<1>4. \/ UNCHANGED <<user, grant>>
      \/ ~AccessRefused /\ user' = [user EXCEPT ![u] = row] /\ grant' = made
  BY DEF SetUserAccess, SetUserAccessOf
<1>5. TablesFit'
  <2>1. row \in UserRow
    BY <1>2 DEF UserRow
  <2>2. kept \subseteq Folders /\ Existing \subseteq Folders
    BY DEF OwnedBy, Existing
  <2>3. made \subseteq Folders \X Users
    BY <1>2, <2>2 DEF SharesInv, TablesFit, Pairs
  <2> HIDE DEF row, made, u
  <2> QED BY <1>1, <1>2, <1>4, <2>1, <2>3 DEF SharesInv, TablesFit, disk
<1>6. Administers(op.ask.by)'
  <2>1. CASE UNCHANGED <<user, grant>>
    BY <1>2, <1>3, <2>1, AskerStays
  <2>2. CASE ~AccessRefused /\ user' = [user EXCEPT ![u] = row] /\ grant' = made
    <3>1. user'[u] = row /\ (op.ask.by # u => user'[op.ask.by] = user[op.ask.by])
      BY <1>2, <2>2 DEF SharesInv, TablesFit
    <3>2. op.ask.by = u => op.ask.admin /\ op.ask.on
      BY <1>2, <2>2 DEF AccessRefused
    <3>3. row # None
      BY <1>2, SharesAssumption
    <3>4. op.ask.by \in Users /\ user[op.ask.by] # None /\ user[op.ask.by].on /\ user[op.ask.by].admin
      BY <1>2 DEF Administers, Enabled
    <3>5. user'[op.ask.by] # None /\ user'[op.ask.by].on /\ user'[op.ask.by].admin
      BY <3>1, <3>2, <3>3, <3>4
    <3> QED BY <1>2, <1>3, <3>5 DEF Administers, Enabled
  <2> QED BY <1>4, <2>1, <2>2
<1>7. AdministratorRemains'
  BY <1>2, <1>3, <1>6 DEF AdministratorRemains, Administrators
<1> QED BY <1>1, <1>5, <1>6, <1>7, ChangeKeeps, GoesOn

(* The rows of folders.                                                    *)
LEMMA CreateNASFolderKeeps ==
  ASSUME SharesInv, CreateNASFolder
  PROVE  SharesInv'
<1>1. /\ op.ask.do = "create" /\ op.at = "work" /\ GoOn("mkdir") /\ UNCHANGED <<user, cap, disk, samba>>
      /\ op.at \in Changing
  BY DEF CreateNASFolder, Doing, Changing
<1>2. op.ask.f \in Folders /\ op.ask.owner \in Users \cup {None}
  BY <1>1, AtWork, RequestSays
<1> DEFINE row == [owner |-> op.ask.owner, quota |-> 0, hard |-> 0]
<1>3. folder' = [folder EXCEPT ![op.ask.f] = row]
      /\ grant' \subseteq grant \cup {<<op.ask.f, u>> : u \in Users}
  BY <1>2 DEF CreateNASFolder
<1>4. row \in FolderRow
  BY <1>2, SharesAssumption DEF FolderRow
<1> HIDE DEF row
<1>5. TablesFit'
  BY <1>1, <1>2, <1>3, <1>4 DEF SharesInv, TablesFit, disk
<1> QED BY <1>1, <1>5, FolderChangeKeeps, GoesOn DEF Changing

LEMMA DeleteNASFolderKeeps ==
  ASSUME SharesInv, DeleteNASFolder
  PROVE  SharesInv'
<1>1. /\ op.ask.do = "delete" /\ op.at = "commit" /\ GoOn("build") /\ UNCHANGED <<user, cap, disk, samba>>
      /\ op.at \in Changing /\ WithoutFolder(op.ask.f)
  BY DEF DeleteNASFolder, Doing, Changing
<1>2. op.ask.f \in Folders
  BY <1>1, AtWork, RequestSays
<1>3. TablesFit'
  BY <1>1, <1>2 DEF SharesInv, TablesFit, disk, WithoutFolder
<1> QED BY <1>1, <1>3, FolderChangeKeeps, GoesOn DEF Changing

LEMMA UpdateManagementKeeps ==
  ASSUME SharesInv, UpdateNASFolderManagement
  PROVE  SharesInv'
<1>1. /\ op.ask.do = "manage" /\ op.at = "commit" /\ GoOn("build") /\ UNCHANGED <<user, cap, disk, samba>>
      /\ op.at \in Changing
  BY DEF UpdateNASFolderManagement, UpdateManagementOf, Doing, Changing
<1>2. /\ op.ask.f \in Folders /\ op.ask.quota \in 0..MaxQuota /\ op.ask.users \subseteq Users
      /\ op.ask.enforce \in BOOLEAN
  BY <1>1, AtWork, RequestSays
<1>3. op.ask.f \in Existing
  BY <1>1 DEF SharesInv, WorkFits
<1>4. folder[op.ask.f] \in FolderRow
  BY <1>2, <1>3 DEF SharesInv, TablesFit, Existing
<1> DEFINE q == op.ask.quota
           f == op.ask.f
           row == [owner |-> folder[f].owner, quota |-> q, hard |-> Hard]
<1>5. Hard \in 0..MaxQuota
  BY <1>2, SharesAssumption DEF Hard
<1>6. folder' = [folder EXCEPT ![f] = row]
  <2>1. folder' = [folder EXCEPT ![f].quota = q, ![f].hard = Hard]
    BY DEF UpdateNASFolderManagement, UpdateManagementOf
  <2>2. [[folder[f] EXCEPT !.quota = q] EXCEPT !.hard = Hard] = row
    <3> DEFINE half == [folder[f] EXCEPT !.quota = q]
    <3>1. half = [owner |-> folder[f].owner, quota |-> q, hard |-> folder[f].hard] /\ half \in FolderRow
      BY <1>2, <1>4 DEF FolderRow
    <3> HIDE DEF half
    <3>2. [half EXCEPT !.hard = Hard] = [owner |-> half.owner, quota |-> half.quota, hard |-> Hard]
      BY <3>1 DEF FolderRow
    <3>3. half.owner = folder[f].owner /\ half.quota = q
      BY <3>1
    <3>4. [half EXCEPT !.hard = Hard] = row
      BY <3>2, <3>3
    <3> HIDE DEF row, f, q
    <3> QED BY <3>4 DEF half
  <2>3. folder = [g \in Folders |-> folder[g]] /\ f \in Folders
    BY <1>2 DEF SharesInv, TablesFit
  <2> HIDE DEF q, row, f
  <2>4. folder' = [folder EXCEPT ![f] = [[folder[f] EXCEPT !.quota = q] EXCEPT !.hard = Hard]]
    BY <2>1, <2>3
  <2> QED BY <2>2, <2>4
<1>7. row \in FolderRow
  BY <1>2, <1>4, <1>5 DEF FolderRow
<1>8. grant' \subseteq Folders \X Users
  <2>1. {folder[f].owner} \ {None} \subseteq Users
    BY <1>4 DEF FolderRow
  <2>2. grant' = {g \in grant : g[1] # f} \cup Pairs({f}, op.ask.users \cup ({folder[f].owner} \ {None}))
    BY DEF UpdateNASFolderManagement, UpdateManagementOf
  <2> QED BY <1>2, <2>1, <2>2 DEF SharesInv, TablesFit, Pairs
<1> HIDE DEF row, f, q
<1>9. TablesFit'
  BY <1>1, <1>6, <1>7, <1>8 DEF SharesInv, TablesFit, disk
<1> QED BY <1>1, <1>9, FolderChangeKeeps, GoesOn DEF Changing

(* The directories, and the limits of quota projects and of users.         *)
LEMMA DirectoryKeeps ==
  ASSUME SharesInv, PrepareFolder \/ RemoveDirectory \/ RemakeDirectory
  PROVE  SharesInv'
<1>1. /\ op.ask.do \in {"create", "delete"} /\ op.at \in {"mkdir", "work", "remake"} /\ op.at \in Changing
      /\ UNCHANGED <<tables, kernel, samba>>
      /\ dir' \subseteq dir \cup {op.ask.f}
      /\ GoOn("build") \/ GoOn("commit")
  BY DEF PrepareFolder, RemoveDirectory, RemakeDirectory, Doing, Changing
<1>2. op.ask.f \in Folders
  BY <1>1, AtWork, RequestSays
<1>3. TablesFit'
  BY <1>1, <1>2 DEF SharesInv, TablesFit, tables
<1>4. UNCHANGED <<user, samba>>
  BY <1>1 DEF tables
<1>5. CASE GoOn("build")
  BY <1>1, <1>3, <1>4, <1>5, FolderChangeKeeps, GoesOn DEF Changing
<1>6. CASE GoOn("commit")
  BY <1>1, <1>3, <1>4, <1>6, FolderChangeKeeps, GoesOn DEF Changing
<1> QED BY <1>1, <1>5, <1>6

LEMMA SetKernelQuotaKeeps ==
  ASSUME SharesInv, SetKernelQuota
  PROVE  SharesInv'
<1>1. /\ op.ask.do = "manage" /\ op.at = "work" /\ op.at \in Changing
      /\ UNCHANGED <<tables, dir, samba>> /\ GoOn("commit")
  BY DEF SetKernelQuota, Doing, Changing
<1>2. op.ask.f \in Folders /\ op.ask.quota \in 0..MaxQuota /\ op.ask.f \in Existing
  BY <1>1, AtWork, RequestSays DEF SharesInv, WorkFits
<1>3. kernel' \in [Folders -> 0..MaxQuota]
  BY <1>2, SharesAssumption DEF SetKernelQuota, Hard, SharesInv, TablesFit
<1>4. TablesFit' /\ UNCHANGED <<user, samba>> /\ Existing' = Existing
  BY <1>1, <1>3 DEF SharesInv, TablesFit, tables, Existing
<1> QED BY <1>1, <1>2, <1>4, FolderChangeKeeps, GoesOn DEF Changing

LEMMA SetNASUserQuotaKeeps ==
  ASSUME SharesInv, SetNASUserQuota
  PROVE  SharesInv'
<1>1. /\ op.ask.do = "quota" /\ op.at = "work" /\ op.at \in Changing
      /\ UNCHANGED <<user, grant, folder, disk, samba>> /\ GoOn("build")
      /\ cap' = [cap EXCEPT ![op.ask.user] = op.ask.quota]
  BY DEF SetNASUserQuota, Doing, Changing
<1>2. op.ask.user \in Users /\ op.ask.quota \in 0..MaxQuota
  BY <1>1, AtWork, RequestSays
<1>3. TablesFit'
  BY <1>1, <1>2 DEF SharesInv, TablesFit, disk
<1> QED BY <1>1, <1>3, FolderChangeKeeps, GoesOn DEF Changing

LEMMA ReconcileKeeps ==
  ASSUME SharesInv, Reconcile
  PROVE  SharesInv'
<1>1. /\ op.ask.do = "reconcile" /\ op.at = "work" /\ op.at \in Changing
      /\ UNCHANGED <<tables, disk, samba>> /\ GoOn("build")
  BY DEF Reconcile, Doing, Changing
<1> QED BY <1>1, TablesStay, FolderChangeKeeps, GoesOn DEF Changing, tables
-----------------------------------------------------------------------------
(* How the work is rewritten with a second field.                          *)
LEMMA OpBecomes ==
  ASSUME WorkFits, NEW at
  PROVE  /\ \A x : op' = [op EXCEPT !.at = at, !.active = x] => OpIs(at, x, op.model, op.old)
         /\ \A x : op' = [op EXCEPT !.at = at, !.model = x] => OpIs(at, op.active, x, op.old)
         /\ \A x : op' = [op EXCEPT !.at = at, !.old = x] => OpIs(at, op.active, op.model, x)
<1> DEFINE half == [op EXCEPT !.at = at]
<1>1. half = [ask |-> op.ask, at |-> at, active |-> op.active, model |-> op.model, old |-> op.old]
  BY DEF WorkFits
<1> HIDE DEF half
<1>2. /\ half \in [ask : {half.ask}, at : {half.at}, active : {half.active},
                   model : {half.model}, old : {half.old}]
      /\ half.ask = op.ask /\ half.at = at /\ half.active = op.active /\ half.model = op.model
      /\ half.old = op.old
  BY <1>1
<1>3. ASSUME NEW x
      PROVE  [half EXCEPT !.active = x]
               = [ask |-> op.ask, at |-> at, active |-> x, model |-> op.model, old |-> op.old]
  BY <1>2
<1>4. ASSUME NEW x
      PROVE  [half EXCEPT !.model = x]
               = [ask |-> op.ask, at |-> at, active |-> op.active, model |-> x, old |-> op.old]
  BY <1>2
<1>5. ASSUME NEW x
      PROVE  [half EXCEPT !.old = x]
               = [ask |-> op.ask, at |-> at, active |-> op.active, model |-> op.model, old |-> x]
  BY <1>2
<1> QED BY <1>3, <1>4, <1>5, Zenon DEF OpIs, half

(* The mutex is kept, and no table changes: what is left to show is what   *)
(* Samba serves.                                                           *)
LEMMA AtHelperKeeps ==
  ASSUME SharesInv, UNCHANGED <<tables, disk, waiting, reconciling, warned, restarts>>,
         op.at # "idle", NEW at \in Places \ {"idle"}, NEW active \in BOOLEAN,
         NEW model \in SUBSET Entry, NEW old \in {None} \cup SUBSET Entry,
         OpIs(at, active, model, old), SambaFits',
         op.ask.do = "apply" => at \in {"build", "write", "test"},
         op.ask.do = "manage" /\ at \in {"stop", "empty", "work", "commit"}
            => op.at \in {"stop", "empty", "work", "commit"},
         NothingServed', ServedFits'
  PROVE  SharesInv'
<1>1. /\ op'.ask = op.ask /\ op'.at = at /\ op'.model = model /\ op'.old = old
      /\ op' \in [ask : {op'.ask}, at : Places, active : BOOLEAN, model : {op'.model}, old : {op'.old}]
  BY DEF OpIs
<1>2. /\ TablesFit' /\ AdministratorRemains' /\ Existing' = Existing
      /\ \A u : Administers(u)' = Administers(u)
  BY TablesStay
<1>3. Administers(op.ask.by)' = Administers(op.ask.by)
  BY <1>1, AskerStays DEF tables
<1>4. WorkFits'
  BY <1>1, <1>2, <1>3 DEF SharesInv, WorkFits
<1>5. HistoryFits'
  BY DEF SharesInv, HistoryFits
<1>6. SharesAreComplete'
  <2>1. op' # Idle
    BY <1>1 DEF Idle, Work
  <2> QED BY <2>1 DEF SharesAreComplete, Settled
<1> QED BY <1>2, <1>4, <1>5, <1>6 DEF SharesInv

LEMMA StopSambaKeeps ==
  ASSUME SharesInv, StopSamba
  PROVE  SharesInv'
<1>1. /\ UNCHANGED <<tables, disk, conf, late, astray, waiting, reconciling, warned, restarts>> /\ op.at = "stop"
      /\ \/ /\ conf = None /\ op' = [op EXCEPT !.at = "work", !.active = FALSE] /\ UNCHANGED smbd
         \/ /\ conf # None /\ op' = [op EXCEPT !.at = "empty", !.active = TRUE] /\ smbd' = FALSE
  BY DEF StopSamba, history
<1>2. /\ op.ask.do # "apply" /\ Granted' = Granted /\ WorkFits /\ SambaFits'
      /\ op.model \in SUBSET Entry /\ op.old \in {None} \cup SUBSET Entry
  BY <1>1, TablesStay DEF SharesInv, WorkFits, SambaFits
<1>3. \/ conf = None /\ OpIs("work", FALSE, op.model, op.old)
      \/ OpIs("empty", TRUE, op.model, op.old)
  BY <1>1, <1>2, OpBecomes
<1>4. /\ op'.at \in {"work", "empty"} /\ (op'.at = "work" => conf = None)
      /\ (op'.at = "empty" => op'.active = TRUE)
      /\ "work" \in Places /\ "empty" \in Places
  BY <1>3 DEF OpIs, Places
<1>5. NothingServed'
  BY <1>1, <1>4 DEF NothingServed, Changing
<1>6. ServedFits'
  BY <1>1, <1>2, <1>4 DEF SharesInv, ServedFits
<1>7. CASE OpIs("work", FALSE, op.model, op.old)
  BY <1>1, <1>2, <1>4, <1>5, <1>6, <1>7, AtHelperKeeps
<1>8. CASE OpIs("empty", TRUE, op.model, op.old)
  BY <1>1, <1>2, <1>4, <1>5, <1>6, <1>8, AtHelperKeeps
<1> QED BY <1>3, <1>7, <1>8

LEMMA EmptyConfigKeeps ==
  ASSUME SharesInv, EmptyConfig
  PROVE  SharesInv'
<1>1. /\ op.at = "empty" /\ conf' = {} /\ GoOn("work") /\ UNCHANGED <<tables, disk, smbd>>
      /\ "work" \in Places /\ op.ask.do # "apply" /\ op.active \in BOOLEAN
      /\ op.model \in SUBSET Entry /\ op.old \in {None} \cup SUBSET Entry
  BY DEF EmptyConfig, Places, SharesInv, WorkFits
<1>2. /\ OpIs("work", op.active, op.model, op.old) /\ op'.at = "work" /\ op'.active = op.active
      /\ UNCHANGED <<waiting, reconciling, warned, restarts>>
  BY <1>1, GoesOn DEF Goes, OpIs
<1>3. ServedFits' /\ SambaFits'
  BY <1>1, <1>2 DEF SharesInv, ServedFits, SambaFits, EmptyConfig
<1>4. op.active = TRUE
  BY <1>1 DEF SharesInv, NothingServed
<1>5. NothingServed'
  BY <1>1, <1>2, <1>4 DEF NothingServed, Changing
<1> QED BY <1>1, <1>2, <1>3, <1>5, AtHelperKeeps

(* Samba is configured anew from the tables.                               *)
LEMMA EndsSo ==
  ASSUME SharesInv, NEW bad \in BOOLEAN, EndWith(bad)
  PROVE  /\ op' = Idle /\ waiting' = waiting /\ warned' = bad
         /\ reconciling' \in BOOLEAN /\ (bad => reconciling' = reconciling)
BY DEF EndWith, SharesInv, HistoryFits

LEMMA ReloadSambaKeeps ==
  ASSUME SharesInv, ReloadSamba
  PROVE  SharesInv'
<1>1. /\ op.at = "test" /\ smbd' = TRUE /\ EndWith(FALSE) /\ UNCHANGED <<tables, disk, conf, fresh, restarts>>
  BY DEF ReloadSamba, End
<1>2. /\ TablesFit' /\ AdministratorRemains' /\ Granted' = Granted /\ Shared' = Shared
  BY <1>1, TablesStay
<1>3. op' = Idle /\ waiting' = waiting /\ warned' = FALSE /\ reconciling' \in BOOLEAN
  BY <1>1, EndsSo
<1>4. HistoryFits'
  BY <1>1, <1>3 DEF SharesInv, HistoryFits
<1>5. /\ astray' = astray /\ SambaFits'
      /\ astray \/ (conf' = op.model /\ op.model \subseteq Granted /\ Due \subseteq op.model)
  BY <1>1 DEF SharesInv, ServedFits, SambaFits, ReloadSamba
<1>6. SharesAreComplete'
  BY <1>1, <1>2, <1>5 DEF SharesAreComplete, Complete, Due
<1> QED BY <1>1, <1>2, <1>3, <1>4, <1>5, <1>6, EndKeeps

LEMMA BuildModelKeeps ==
  ASSUME SharesInv, BuildModel
  PROVE  SharesInv'
<1>1. /\ op.at = "build" /\ UNCHANGED <<tables, disk, samba, restarts>>
      /\ TablesFit' /\ AdministratorRemains' /\ Granted' = Granted /\ Shared' = Shared
  BY TablesStay DEF BuildModel, End, EndWith, history
<1>2. /\ astray \/ conf = None \/ conf \subseteq Granted
      /\ UNCHANGED <<smbd, conf, astray>> /\ SambaFits'
  BY <1>1 DEF SharesInv, SambaFits, ServedFits, samba
<1>3. ASSUME NEW bad \in BOOLEAN, EndWith(bad), bad \/ astray \/ conf = None
      PROVE  SharesInv'
  <2>1. op' = Idle /\ waiting' = waiting /\ warned' = bad /\ reconciling' \in BOOLEAN
    BY <1>3, EndsSo
  <2>2. HistoryFits'
    BY <1>1, <2>1 DEF SharesInv, HistoryFits
  <2>3. warned' \/ SharesAreComplete'
    BY <1>2, <1>3, <2>1 DEF SharesAreComplete, Settled
  <2> QED BY <1>1, <1>2, <2>1, <2>2, <2>3, EndKeeps
<1>4. CASE ~op.active
  <2>1. (astray \/ conf = None) /\ EndWith(FALSE)
    BY <1>1, <1>4 DEF SharesInv, NothingServed, BuildModel, End
  <2> QED BY <1>3, <2>1
<1>5. CASE op.active /\ ~(Existing \subseteq dir)
  BY <1>3, <1>5 DEF BuildModel
<1>6. CASE op.active /\ Existing \subseteq dir
  <2>1. /\ op' = [op EXCEPT !.at = "write", !.model = Shared] /\ fresh' = {}
        /\ UNCHANGED <<waiting, reconciling, warned, restarts>>
    BY <1>6 DEF BuildModel
  <2>2. /\ OpIs("write", op.active, Shared, op.old) /\ op.active \in BOOLEAN /\ "write" \in Places
        /\ op.old \in {None} \cup SUBSET Entry /\ Shared \in SUBSET Entry
    BY <2>1, OpBecomes, SharedIsGranted DEF SharesInv, WorkFits, Places, Granted
  <2>3. op'.at = "write" /\ op'.model = Shared
    BY <2>2 DEF OpIs
  <2>4. NothingServed'
    BY <2>3 DEF NothingServed, Changing
  <2>5. Due' \subseteq Shared
    BY <1>1 DEF Due
  <2>6. ServedFits'
    BY <1>1, <1>2, <2>3, <2>5, SharedIsGranted DEF ServedFits
  <2> QED BY <1>1, <1>2, <2>1, <2>2, <2>4, <2>6, AtHelperKeeps
<1> QED BY <1>4, <1>5, <1>6 DEF SharesInv, WorkFits

LEMMA WriteConfigKeeps ==
  ASSUME SharesInv, WriteConfig
  PROVE  SharesInv'
<1>1. /\ op.at = "write" /\ conf' = op.model /\ op' = [op EXCEPT !.at = "test", !.old = conf]
      /\ UNCHANGED <<tables, disk, smbd, waiting, reconciling, fresh, warned, restarts>>
      /\ Granted' = Granted /\ Shared' = Shared /\ op.active \in BOOLEAN /\ "test" \in Places
      /\ UNCHANGED <<late, astray>> /\ op.model \in SUBSET Entry /\ conf \in {None} \cup SUBSET Entry
  BY TablesStay DEF WriteConfig, history, SharesInv, WorkFits, SambaFits, Places
<1>2. OpIs("test", op.active, op.model, conf)
  BY <1>1, OpBecomes DEF SharesInv
<1>3. op'.at = "test" /\ op'.model = op.model /\ op'.old = conf
  BY <1>2 DEF OpIs
<1>4. NothingServed'
  BY <1>3 DEF NothingServed, Changing
<1>5. ServedFits'
  BY <1>1, <1>3 DEF SharesInv, ServedFits, Due
<1>6. SambaFits'
  BY <1>1 DEF SharesInv, SambaFits
<1> QED BY <1>1, <1>2, <1>4, <1>5, <1>6, AtHelperKeeps

-----------------------------------------------------------------------------
(* Who holds the mutex next.                                               *)
LEMMA BeginKeeps ==
  ASSUME SharesInv, op = Idle, UNCHANGED <<tables, disk, samba, reconciling, history>>,
         waiting' \subseteq waiting, NEW r \in Orders \cup {Reconciliation},
         op' = Work(r, First(r), r.do = "apply"),
         r.do # "reconcile" => Administers(r.by), r.do = "manage" => r.f \in Existing
  PROVE  SharesInv'
<1>1. /\ TablesFit' /\ AdministratorRemains' /\ Granted' = Granted /\ Shared' = Shared /\ Existing' = Existing
      /\ \A u : Administers(u)' = Administers(u)
  BY TablesStay
<1>2. UNCHANGED <<smbd, conf, late, astray, user, fresh, warned, restarts>>
  BY DEF samba, tables, history
<1>3. /\ op'.ask = r /\ op'.active = (r.do = "apply")
      /\ (r.do = "apply" => op'.at = "build") /\ (r.do # "apply" => op'.at = "stop")
      /\ op' \in [ask : {op'.ask}, at : Places, active : BOOLEAN, model : {op'.model}, old : {op'.old}]
      /\ op'.model = {} /\ op'.old = None
  BY DEF Work, First, Places
<1>4. r.do # "reconcile" => Administers(op.ask.by)'
  BY <1>2, <1>3 DEF Administers, Enabled
<1>5. WorkFits'
  <2>1. op'.at \in {"build", "stop"} /\ (op'.at = "stop" => r.do # "apply")
    BY <1>3
  <2> QED BY <1>1, <1>3, <1>4, <2>1 DEF SharesInv, WorkFits
<1>6. SambaFits' /\ NothingServed' /\ ServedFits' /\ HistoryFits'
  BY <1>1, <1>2, <1>3 DEF SharesInv, SambaFits, NothingServed, ServedFits, HistoryFits, Changing
<1>7. SharesAreComplete'
  <2>1. op' # Idle
    BY <1>3 DEF Idle, Work
  <2> QED BY <2>1 DEF SharesAreComplete, Settled
<1> QED BY <1>1, <1>5, <1>6, <1>7 DEF SharesInv

LEMMA AdmitKeeps ==
  ASSUME SharesInv, NEW r, Admit(r)
  PROVE  SharesInv'
<1>1. /\ op = Idle /\ r \in Orders /\ waiting' \subseteq waiting /\ waiting' \subseteq Orders
      /\ UNCHANGED <<tables, disk, samba, reconciling, history>>
  BY DEF Admit, SharesInv, WorkFits
<1>2. CASE UNCHANGED op
  BY <1>1, <1>2, OthersStay
<1>3. CASE Administers(r.by) /\ ~Refused(r) /\ Begin(r)
  <2>1. r.do = "manage" => r.f \in Existing
    BY <1>3 DEF Refused
  <2> QED BY <1>1, <1>3, <2>1, BeginKeeps DEF Begin
<1> QED BY <1>2, <1>3 DEF Admit

LEMMA TryReconcileKeeps ==
  ASSUME SharesInv, TryReconcile
  PROVE  SharesInv'
<1>1. /\ op = Idle /\ UNCHANGED <<tables, disk, samba, reconciling, history>> /\ waiting' \subseteq waiting
      /\ Reconciliation.do = "reconcile"
      /\ op' = Work(Reconciliation, First(Reconciliation), Reconciliation.do = "apply")
  BY DEF TryReconcile, Reconciliation, First
<1> QED BY <1>1, BeginKeeps

LEMMA AskKeeps ==
  ASSUME SharesInv, NEW by \in Administrators, NEW r \in Asked(by), Ask(r)
  PROVE  SharesInv'
<1>1. r \in Orders
  BY DEF Asked, Orders, Administrators, Known, Existing, FreeIds
<1> QED BY <1>1, OthersStay DEF Ask, SharesInv, WorkFits

-----------------------------------------------------------------------------
(* Beside the mutex.                                                       *)
LEMMA CreateUserKeeps ==
  ASSUME SharesInv, NEW u \in Users, NEW fs \in SUBSET Existing, CreateUserWithAccess(u, fs)
  PROVE  SharesInv'
<1> DEFINE row == [admin |-> FALSE, on |-> TRUE]
<1>1. /\ user[u] = None /\ user' = [user EXCEPT ![u] = row] /\ grant' = grant \cup Pairs(fs, {u})
      /\ fresh' = fresh \cup {u}
      /\ UNCHANGED <<folder, cap, dir, kernel, smbd, conf, late, astray, op, waiting, reconciling,
                      warned, restarts>>
  BY DEF CreateUserWithAccess, disk, samba
<1>2. row \in UserRow /\ fs \subseteq Folders /\ Existing' = Existing
  BY <1>1 DEF UserRow, Existing
<1> HIDE DEF row
<1>3. TablesFit'
  BY <1>1, <1>2 DEF SharesInv, TablesFit, Pairs
<1>4. \A v \in Users : v # u => user'[v] = user[v]
  BY <1>1 DEF SharesInv, TablesFit
<1>5. \A v : Administers(v) => Administers(v)'
  BY <1>1, <1>4 DEF Administers, Enabled
<1>6. AdministratorRemains'
  BY <1>5 DEF SharesInv, AdministratorRemains, Administrators
<1>7. WorkFits'
  <2>1. Idle' = Idle
    BY DEF Idle, Work
  <2>2. Administers(op.ask.by) => Administers(op.ask.by)'
    BY <1>1, <1>5
  <2> QED BY <1>1, <1>2, <2>1, <2>2 DEF SharesInv, WorkFits
<1>8. SambaFits' /\ NothingServed' /\ HistoryFits'
  BY <1>1 DEF SharesInv, SambaFits, NothingServed, HistoryFits
<1>9. \A f, v : MayReach(f, v) => MayReach(f, v)'
  BY <1>1, <1>4 DEF MayReach, Enabled
<1>10. Granted \subseteq Granted'
  BY <1>2, <1>9 DEF Granted
<1>11. \A f \in Folders : \A v \in Users \ {u} : MayReach(f, v)' => MayReach(f, v)
  BY <1>1, <1>4 DEF MayReach, Enabled, Pairs
<1>12. \A f : Writable(f)' = Writable(f)
  BY <1>1 DEF Writable, PersonallySafe, Budget, OwnedBy, Verified, Existing
<1>13. Due' \subseteq Due
  <2> SUFFICES ASSUME NEW e \in Due'
               PROVE  e \in Due
    OBVIOUS
  <2>1. e \in Shared' /\ e.u \notin fresh /\ e.u # u
    BY <1>1 DEF Due
  <2>2. (e \in Shared
          <=> \E f \in Existing, v \in Users :
                MayReach(f, v) /\ e = [f |-> f, u |-> v, w |-> Writable(f)])'
    BY <2>1, SharedIsThen
  <2>3. PICK f \in Existing', v \in Users :
          MayReach(f, v)' /\ e = [f |-> f, u |-> v, w |-> Writable(f)']
    BY <2>1, <2>2
  <2>4. f \in Existing /\ f \in Folders /\ v # u
    BY <1>2, <2>1, <2>3 DEF Existing
  <2>5. MayReach(f, v) /\ e = [f |-> f, u |-> v, w |-> Writable(f)]
    BY <1>11, <1>12, <2>3, <2>4
  <2>6. e \in Shared
    BY <2>4, <2>5, SharedIs
  <2> QED BY <2>1, <2>6 DEF Due
<1>14. ServedFits'
  BY <1>1, <1>10, <1>13 DEF SharesInv, ServedFits
<1>15. SharesAreComplete'
  <2>1. Idle' = Idle
    BY DEF Idle, Work
  <2> QED BY <1>1, <1>13, <2>1 DEF SharesInv, SharesAreComplete, Settled, Complete, Due
<1> QED BY <1>3, <1>6, <1>7, <1>8, <1>14, <1>15 DEF SharesInv

LEMMA InstallSambaKeeps ==
  ASSUME SharesInv, NEW by, InstallSamba(by)
  PROVE  SharesInv'
<1>1. /\ smbd' = TRUE /\ UNCHANGED <<tables, disk, conf, op, waiting, reconciling, fresh, warned, restarts>>
      /\ UNCHANGED <<user, late, astray>>
  BY DEF InstallSamba, history, tables
<1>2. /\ TablesFit' /\ AdministratorRemains' /\ Granted' = Granted /\ Shared' = Shared /\ Existing' = Existing
      /\ \A u : Administers(u)' = Administers(u)
  BY <1>1, TablesStay
<1>3. Idle' = Idle /\ (Administers(op.ask.by) => Administers(op.ask.by)')
  BY <1>1 DEF Idle, Work, Administers, Enabled
<1>4. WorkFits'
  BY <1>1, <1>2, <1>3 DEF SharesInv, WorkFits
<1>5. SambaFits' /\ NothingServed' /\ HistoryFits'
  BY <1>1 DEF SharesInv, SambaFits, NothingServed, HistoryFits
<1>6. ServedFits' /\ SharesAreComplete'
  BY <1>1, <1>2, <1>3 DEF SharesInv, ServedFits, SharesAreComplete, Settled, Complete, Due
<1> QED BY <1>2, <1>4, <1>5, <1>6 DEF SharesInv

-----------------------------------------------------------------------------
(* Failures.                                                               *)
LEMMA CutOffKeeps ==
  ASSUME SharesInv, op' = Idle, waiting' \subseteq waiting, UNCHANGED <<tables, disk>>,
         HistoryFits', SambaFits', astray' \/ conf' = None \/ conf' \subseteq Granted,
         warned' \/ reconciling'
  PROVE  SharesInv'
<1>1. TablesFit' /\ AdministratorRemains' /\ Granted' = Granted
  BY TablesStay
<1> QED BY <1>1, EndKeeps

LEMMA EndedByErrorKeeps ==
  ASSUME SharesInv, EndWith(TRUE), UNCHANGED <<tables, disk>>, restarts' \in Nat,
         SambaFits', astray' \/ conf' = None \/ conf' \subseteq Granted
  PROVE  SharesInv'
<1>1. op' = Idle /\ waiting' = waiting /\ warned' = TRUE /\ reconciling' \in BOOLEAN
  BY EndsSo
<1>2. HistoryFits'
  BY <1>1 DEF HistoryFits
<1> QED BY <1>1, <1>2, CutOffKeeps

LEMMA GoesOnAfterFailure ==
  ASSUME SharesInv, op # Idle, Fail, After(op.at) # "end"
  PROVE  /\ Goes(After(op.at)) /\ op.at \in Changing /\ After(op.at) \in Changing \cup {"build"}
         /\ After(op.at) \notin {"work", "commit"}
BY DEF Fail, After, Changing, SharesInv, WorkFits, history, Goes, OpIs

LEMMA CallFailsKeeps ==
  ASSUME SharesInv, CallFails
  PROVE  SharesInv'
<1>1. op # Idle /\ Fail /\ UNCHANGED <<tables, disk, samba>>
  BY DEF CallFails
<1>2. /\ SambaFits' /\ (astray' \/ conf' = None \/ conf' \subseteq Granted)
      /\ restarts \in Nat
  BY <1>1 DEF samba, SharesInv, SambaFits, ServedFits, HistoryFits
<1>3. CASE After(op.at) = "end"
  <2>1. EndWith(TRUE) /\ restarts' = restarts
    BY <1>1, <1>3 DEF Fail
  <2> QED BY <1>1, <1>2, <2>1, EndedByErrorKeeps
<1>4. CASE After(op.at) # "end"
  <2>1. /\ Goes(After(op.at)) /\ op.at \in Changing /\ After(op.at) \in Changing \cup {"build"}
        /\ After(op.at) \notin {"work", "commit"}
    BY <1>1, <1>4, GoesOnAfterFailure
  <2>2. TablesFit' /\ UNCHANGED <<user, samba>>
    BY <1>1, TablesStay DEF tables
  <2> QED BY <2>1, <2>2, FolderChangeKeeps
<1> QED BY <1>3, <1>4

LEMMA SuspendUnheardKeeps ==
  ASSUME SharesInv, SuspendUnheard
  PROVE  SharesInv'
<1>1. EndWith(TRUE) /\ UNCHANGED <<tables, disk, samba, restarts>>
  BY DEF SuspendUnheard
<1>2. SambaFits' /\ (astray' \/ conf' = None \/ conf' \subseteq Granted) /\ restarts' \in Nat
  BY <1>1 DEF samba, SharesInv, SambaFits, ServedFits, HistoryFits
<1> QED BY <1>1, <1>2, EndedByErrorKeeps

LEMMA PrepareUnheardKeeps ==
  ASSUME SharesInv, PrepareUnheard
  PROVE  SharesInv'
<1>1. /\ op.ask.do = "create" /\ op.at = "mkdir" /\ Fail /\ dir' = dir \cup {op.ask.f}
      /\ UNCHANGED <<tables, kernel, samba>> /\ op.at \in Changing
  BY DEF PrepareUnheard, Doing, Changing
<1>2. op # Idle /\ After(op.at) # "end"
  BY <1>1 DEF Idle, Work, After
<1>3. op.ask.f \in Folders
  BY <1>1, AtWork, RequestSays
<1>4. TablesFit' /\ UNCHANGED <<user, samba>>
  BY <1>1, <1>3 DEF SharesInv, TablesFit, tables
<1> QED BY <1>1, <1>2, <1>4, GoesOnAfterFailure, FolderChangeKeeps

LEMMA TestFailsKeeps ==
  ASSUME SharesInv, TestFails
  PROVE  SharesInv'
<1>1. /\ op.at = "test" /\ conf' = op.old /\ EndWith(TRUE)
      /\ UNCHANGED <<tables, disk, smbd, late, astray, restarts>>
  BY DEF TestFails
<1>2. SambaFits' /\ (astray' \/ conf' = None \/ conf' \subseteq Granted) /\ restarts' \in Nat
  BY <1>1 DEF SharesInv, WorkFits, SambaFits, ServedFits, HistoryFits
<1> QED BY <1>1, <1>2, EndedByErrorKeeps

LEMMA CreateEndsKeeps ==
  ASSUME SharesInv, CreateRefused
  PROVE  SharesInv'
<1>1. EndWith(TRUE) /\ UNCHANGED <<tables, disk, samba, restarts>>
  BY DEF CreateRefused
<1>2. SambaFits' /\ (astray' \/ conf' = None \/ conf' \subseteq Granted) /\ restarts' \in Nat
  BY <1>1 DEF samba, SharesInv, SambaFits, ServedFits, HistoryFits
<1> QED BY <1>1, <1>2, EndedByErrorKeeps

LEMMA UndoFolderKeeps ==
  ASSUME SharesInv, UndoFolder
  PROVE  SharesInv'
<1>1. /\ op.ask.do = "create" /\ op.at = "undo" /\ WithoutFolder(op.ask.f) /\ EndWith(TRUE)
      /\ UNCHANGED <<restarts, user, cap, dir, kernel, smbd, conf, late, astray>> /\ op.at \in Changing
  BY DEF UndoFolder, Doing, disk, samba, Changing
<1>2. op.ask.f \in Folders
  BY <1>1, AtWork, RequestSays
<1>3. TablesFit'
  BY <1>1, <1>2 DEF SharesInv, TablesFit, WithoutFolder
<1>4. op' = Idle /\ waiting' = waiting /\ warned' = TRUE /\ reconciling' \in BOOLEAN
  BY <1>1, EndsSo
<1>5. HistoryFits' /\ AdministratorRemains'
  BY <1>1, <1>4 DEF SharesInv, HistoryFits, AdministratorRemains, Administrators, Administers, Enabled
<1>6. SambaFits' /\ (astray' \/ conf' \in {None, {}})
  BY <1>1 DEF SharesInv, SambaFits, NothingServed
<1> QED BY <1>3, <1>4, <1>5, <1>6, EndKeeps

(* The helper goes on with a call nobody waits for.                        *)
LEMMA OngoingIsLate ==
  ASSUME SharesInv
  PROVE  Ongoing \subseteq LateCall
<1>1. op.model \in SUBSET Entry /\ op.old \in {None} \cup SUBSET Entry
  BY DEF SharesInv, WorkFits
<1> QED BY <1>1 DEF Ongoing, InHelper, LateCall

LEMMA CoreDiesKeeps ==
  ASSUME SharesInv, CoreDies
  PROVE  SharesInv'
<1>1. /\ op' = Idle /\ waiting' = {} /\ reconciling' = TRUE /\ late' = late \cup Ongoing
      /\ UNCHANGED <<tables, disk, smbd, conf, astray, warned, restarts>>
  BY DEF CoreDies, Cut
<1>2. SambaFits' /\ (astray' \/ conf' = None \/ conf' \subseteq Granted) /\ HistoryFits'
  BY <1>1, OngoingIsLate DEF SharesInv, SambaFits, ServedFits, HistoryFits
<1> QED BY <1>1, <1>2, CutOffKeeps

LEMMA CallAbandonedKeeps ==
  ASSUME SharesInv, CallAbandoned
  PROVE  SharesInv'
<1>1. /\ EndWith(TRUE) /\ late' = late \cup Ongoing
      /\ UNCHANGED <<tables, disk, smbd, conf, astray, restarts>>
  BY DEF CallAbandoned
<1>2. SambaFits' /\ (astray' \/ conf' = None \/ conf' \subseteq Granted) /\ restarts' \in Nat
  BY <1>1, OngoingIsLate DEF SharesInv, SambaFits, ServedFits, HistoryFits
<1> QED BY <1>1, <1>2, EndedByErrorKeeps

(* What it does changes Samba, and nothing else.                           *)
LEMMA BesideKeeps ==
  ASSUME SharesInv, UNCHANGED <<tables, disk, op, waiting, reconciling, history>>, SambaFits',
         astray' \/ (astray' = astray /\ UNCHANGED <<smbd, conf>>)
  PROVE  SharesInv'
<1>1. /\ TablesFit' /\ AdministratorRemains' /\ Granted' = Granted /\ Shared' = Shared
      /\ Existing' = Existing /\ \A u : Administers(u)' = Administers(u)
  BY TablesStay
<1>2. UNCHANGED <<fresh, warned, restarts>>
  BY DEF history
<1>3. WorkFits'
  <2>1. Idle' = Idle
    BY DEF Idle, Work
  <2>2. Administers(op.ask.by)' = Administers(op.ask.by)
    BY AskerStays DEF tables
  <2> QED BY <1>1, <2>1, <2>2 DEF SharesInv, WorkFits
<1>4. NothingServed' /\ HistoryFits'
  BY <1>2 DEF SharesInv, NothingServed, HistoryFits
<1>5. Due' = Due
  BY <1>1, <1>2 DEF Due
<1>6. ServedFits'
  BY <1>1, <1>5 DEF SharesInv, ServedFits
<1>7. SharesAreComplete'
  BY <1>1, <1>2, <1>5 DEF SharesInv, SharesAreComplete, Settled, Complete, Due, Idle, Work
<1> QED BY <1>1, <1>3, <1>4, <1>6, <1>7 DEF SharesInv

LEMMA LateStepKeeps ==
  ASSUME SharesInv, LateStep
  PROVE  SharesInv'
<1>1. /\ UNCHANGED <<tables, disk, op, waiting, reconciling, history>> /\ astray' = TRUE
  BY DEF LateStep
<1>2. PICK c \in late :
        /\ smbd' \in {smbd, TRUE, FALSE} /\ conf' \in {conf, {}, c.model}
        /\ late' \subseteq (late \ {c}) \cup {[c EXCEPT !.at = "empty"], [c EXCEPT !.at = "test", !.old = conf]}
  BY DEF LateStep, Becomes
<1>3. c \in LateCall /\ conf \in {None} \cup SUBSET Entry
  BY DEF SharesInv, SambaFits
<1>4. [c EXCEPT !.at = "empty"] \in LateCall /\ [c EXCEPT !.at = "test", !.old = conf] \in LateCall
  BY <1>3 DEF LateCall
<1>5. SambaFits'
  BY <1>1, <1>2, <1>3, <1>4 DEF SharesInv, SambaFits, LateCall
<1> QED BY <1>1, <1>5, BesideKeeps

LEMMA LateFailsKeeps ==
  ASSUME SharesInv, LateFails
  PROVE  SharesInv'
<1>1. UNCHANGED <<tables, disk, smbd, op, waiting, reconciling, history>>
  BY DEF LateFails
<1>2. PICK c \in late :
        /\ late' \subseteq late
        /\ UNCHANGED <<conf, astray>> \/ (conf' = c.old /\ astray' = TRUE)
  BY DEF LateFails, Becomes
<1>3. c.old \in {None} \cup SUBSET Entry
  BY DEF SharesInv, SambaFits, LateCall
<1>4. SambaFits'
  BY <1>1, <1>2, <1>3 DEF SharesInv, SambaFits
<1> QED BY <1>1, <1>2, <1>4, BesideKeeps

LEMMA RebootKeeps ==
  ASSUME SharesInv, Reboot
  PROVE  SharesInv'
<1>1. /\ op' = Idle /\ waiting' = {} /\ reconciling' = TRUE
      /\ UNCHANGED <<tables, disk, warned, restarts>>
      /\ Suspended \/ (smbd' = (conf # None) /\ UNCHANGED conf)
      /\ late' = {} /\ astray' = astray
  BY DEF Reboot, Cut
<1>2. SambaFits' /\ (astray' \/ conf' = None \/ conf' \subseteq Granted) /\ HistoryFits'
  BY <1>1 DEF SharesInv, SambaFits, ServedFits, HistoryFits, Suspended
<1> QED BY <1>1, <1>2, CutOffKeeps

LEMMA HelperDiesKeeps ==
  ASSUME SharesInv, HelperDies
  PROVE  SharesInv'
<1>1. /\ Suspended /\ restarts' = restarts + 1 /\ UNCHANGED <<tables, disk, astray, fresh>> /\ late' = {}
  BY DEF HelperDies
<1>2. /\ SambaFits' /\ (conf' = None \/ conf' = {})
      /\ restarts' \in Nat /\ restarts' # 0
  <2>1. smbd' = FALSE /\ (conf' = None \/ conf' = {})
    BY <1>1 DEF Suspended
  <2>2. restarts \in Nat
    BY DEF SharesInv, HistoryFits
  <2>3. restarts' \in Nat /\ restarts' # 0
    BY <1>1, <2>2
  <2>4. SambaFits'
    BY <1>1, <2>1 DEF SharesInv, SambaFits
  <2> QED BY <2>1, <2>3, <2>4
<1>3. CASE EndWith(TRUE)
  BY <1>1, <1>2, <1>3, EndedByErrorKeeps
<1>4. CASE ~InHelper /\ UNCHANGED <<op, waiting, reconciling, warned, requests>>
  <2>1. /\ TablesFit' /\ AdministratorRemains' /\ Granted' = Granted /\ Existing' = Existing
        /\ \A u : Administers(u)' = Administers(u)
    BY <1>1, TablesStay
  <2>2. Idle' = Idle /\ (Administers(op.ask.by) => Administers(op.ask.by)')
    BY <1>1, <1>4 DEF Idle, Work, Administers, Enabled, tables
  <2>3. WorkFits'
    BY <1>4, <2>1, <2>2 DEF SharesInv, WorkFits
  <2>4. (conf' = None \/ conf' = {}) /\ (conf = None => conf' = None)
    BY <1>1 DEF Suspended
  <2>5. astray' = astray
    BY <1>1
  <2>6. NothingServed'
    BY <1>4, <2>4, <2>5 DEF InHelper, SharesInv, NothingServed
  <2>7. op.at \notin {"write", "test"}
    BY <1>4 DEF InHelper
  <2>8. ServedFits'
    BY <1>4, <2>1, <2>4, <2>5, <2>7 DEF SharesInv, ServedFits
  <2>9. HistoryFits'
    BY <1>2, <1>4 DEF SharesInv, HistoryFits
  <2>10. SharesAreComplete'
    BY <1>2 DEF SharesAreComplete
  <2> QED BY <1>2, <2>1, <2>3, <2>6, <2>8, <2>9, <2>10 DEF SharesInv
<1> QED BY <1>3, <1>4 DEF HelperDies

-----------------------------------------------------------------------------
(* The invariant.                                                          *)
LEMMA SharesBegin == SharesInit => SharesInv
<1> SUFFICES ASSUME SharesInit PROVE SharesInv
  OBVIOUS
<1>1. PICK absent \in SUBSET Latecomers, admins \in SUBSET Users, hard \in 0..MaxQuota :
        SetUp(absent, admins, hard, {f \in DOMAIN HomeOf : HomeOf[f] \notin absent})
  BY DEF SharesInit
<1> DEFINE homes == {f \in DOMAIN HomeOf : HomeOf[f] \notin absent}
<1>2. /\ cap = [u \in Users |-> 0] /\ conf \in {None, Shared} /\ smbd = (conf # None)
      /\ op = Idle /\ waiting = {} /\ reconciling = FALSE /\ warned = FALSE /\ restarts = 0
      /\ late = {} /\ astray = FALSE
  BY DEF SharesInit
<1>3. homes \subseteq Folders /\ (\A f \in homes : HomeOf[f] \in Users) /\ 0 \in 0..MaxQuota
  BY SharesAssumption
<1>4. \A u \in Users : [admin |-> u \in Owners \cup admins, on |-> TRUE] \in UserRow
  BY DEF UserRow
<1>5. \A f \in homes : [owner |-> HomeOf[f], quota |-> hard, hard |-> hard] \in FolderRow
  BY <1>3 DEF FolderRow
<1> HIDE DEF homes
<1>6. TablesFit
  BY <1>1, <1>2, <1>3, <1>4, <1>5 DEF TablesFit, SetUp, homes
<1>7. AdministratorRemains
  <2>1. PICK u \in Owners : u \notin Latecomers
    BY SharesAssumption
  <2>2. u \in Users /\ u \notin absent
    BY <2>1, SharesAssumption
  <2>3. user[u] = [admin |-> u \in Owners \cup admins, on |-> TRUE]
    BY <1>1, <2>2 DEF SetUp
  <2>4. user[u] # None
    BY <1>4, <2>2, <2>3, SharesAssumption DEF UserRow
  <2>5. user[u].on = TRUE /\ user[u].admin = (u \in Owners \cup admins)
    BY <2>3
  <2>6. user[u].on /\ user[u].admin
    BY <2>1, <2>5
  <2> QED BY <2>2, <2>4, <2>6 DEF AdministratorRemains, Administrators, Administers, Enabled
<1>8. WorkFits
  BY <1>2 DEF WorkFits, Idle, Work, Places
<1>9. op.at = "idle"
  BY <1>2 DEF Idle, Work
<1>10. NothingServed /\ HistoryFits
  BY <1>2, <1>9 DEF NothingServed, HistoryFits, Changing
<1>11. ServedFits
  BY <1>2, <1>9, SharedIsGranted DEF ServedFits
<1>12. SharesAreComplete
  BY <1>2 DEF SharesAreComplete, Settled, Complete
<1>13. SambaFits
  BY <1>2, SharedIsGranted DEF SambaFits, Granted
<1> QED BY <1>6, <1>7, <1>8, <1>10, <1>11, <1>12, <1>13 DEF SharesInv

LEMMA SharesStutter == SharesInv /\ UNCHANGED shareVars => SharesInv'
<1> SUFFICES ASSUME SharesInv, UNCHANGED shareVars PROVE SharesInv'
  OBVIOUS
<1>1. /\ UNCHANGED <<tables, disk, samba, op, reconciling, history, waiting>>
      /\ waiting' \subseteq Orders
  BY DEF shareVars, SharesInv, WorkFits
<1> QED BY <1>1, OthersStay

LEMMA SharesGoOn == SharesInv /\ [SharesNext]_shareVars => SharesInv'
<1> SUFFICES ASSUME SharesInv, [SharesNext]_shareVars PROVE SharesInv'
  OBVIOUS
<1>1. CASE Step
  <2>1. CASE Change
    BY <2>1, SetUserAccessKeeps, CreateNASFolderKeeps, CreateEndsKeeps, DirectoryKeeps, UndoFolderKeeps,
       DeleteNASFolderKeeps, SetKernelQuotaKeeps, UpdateManagementKeeps, SetNASUserQuotaKeeps,
       ReconcileKeeps DEF Change
  <2> QED BY <1>1, <2>1, StopSambaKeeps, EmptyConfigKeeps, BuildModelKeeps, WriteConfigKeeps,
             ReloadSambaKeeps DEF Step
<1>2. CASE Request
  <2>1. ASSUME NEW by \in Administrators, NEW r \in Asked(by), Ask(r) PROVE SharesInv'
    BY <2>1, AskKeeps
  <2>2. ASSUME NEW u \in Users, NEW fs \in SUBSET Existing, CreateUserWithAccess(u, fs)
        PROVE  SharesInv'
    BY <2>2, CreateUserKeeps
  <2>3. ASSUME NEW by \in Users, InstallSamba(by) PROVE SharesInv'
    BY <2>3, InstallSambaKeeps
  <2> QED BY <1>2, <2>1, <2>2, <2>3 DEF Request
<1>3. CASE Failure
  BY <1>3, CallFailsKeeps, SuspendUnheardKeeps, PrepareUnheardKeeps, TestFailsKeeps, CallAbandonedKeeps,
     LateStepKeeps, LateFailsKeeps, CoreDiesKeeps, HelperDiesKeeps, RebootKeeps DEF Failure
<1>4. CASE \E r \in waiting : Admit(r)
  BY <1>4, AdmitKeeps
<1> QED BY <1>1, <1>2, <1>3, <1>4, TryReconcileKeeps, SharesStutter DEF SharesNext

(* Whatever is asked, in whatever order requests are admitted, and         *)
(* wherever a change is cut off, the tables stay in order and Samba serves *)
(* no more than they grant; once a call Core gave up on has changed Samba  *)
(* late, this is true again after the next suspension that has no such     *)
(* call beside it.  beginSMBAccessChange, finishSMBAccessChange            *)
THEOREM SharesKept == SharesSpec => []SharesInv
BY SharesBegin, SharesGoOn, PTL DEF SharesSpec

(* Samba never serves, nor would after a boot, what is not granted, and    *)
(* after a change reported as done it serves all that is: but for what a   *)
(* call Core gave up on wrote late, until Samba is suspended again.        *)
THEOREM SharesHold == SharesSpec => []SharesAreRight
<1>1. SharesInv => SharesAreRight
  <2> SUFFICES ASSUME SharesInv PROVE SharesAreRight
    OBVIOUS
  <2>1. SharesAreGranted
    BY DEF SharesInv, ServedFits, SharesAreGranted, Served, Granted
  <2>2. SharesTypeOK
    <3>1. (conf # None => conf \subseteq Entry) /\ smbd \in BOOLEAN /\ astray \in BOOLEAN
          /\ \A c \in late : c.at \in {"stop", "empty", "write", "test"}
      BY DEF SharesInv, SambaFits, LateCall
    <3>2. op.at \in Places
      BY DEF SharesInv, WorkFits
    <3> QED BY <3>1, <3>2 DEF SharesTypeOK, SharesInv, TablesFit, HistoryFits, Entry,
               UserRow, FolderRow, Places
  <2> QED BY <2>1, <2>2 DEF SharesAreRight, SharesInv
<1> QED BY <1>1, SharesKept, PTL

(* There always is an administrator, and access is changed only while the  *)
(* change of someone who is one holds the mutex, though their role may     *)
(* have been taken while they waited for it.  refreshMutationActor         *)
THEOREM AdministratorsHold == SharesSpec => AdministratorsDecide
<1>1. SharesInv /\ [SharesNext]_shareVars
        => [\/ UNCHANGED <<folder, cap>> /\ \A u \in Known : user'[u] = user[u]
            \/ op # Idle /\ Administers(op.ask.by)]_shareVars
  <2> SUFFICES ASSUME SharesInv, SharesNext
               PROVE  \/ UNCHANGED <<folder, cap>> /\ \A u \in Known : user'[u] = user[u]
                      \/ op # Idle /\ Administers(op.ask.by)
    OBVIOUS
  <2> DEFINE Spared == UNCHANGED <<folder, cap>> /\ \A u \in Known : user'[u] = user[u]
             Decided == op # Idle /\ Administers(op.ask.by)
  <2>1. UNCHANGED <<user, folder, cap>> => Spared
    OBVIOUS
  <2>2. op.at \in Changing /\ op.ask.do # "reconcile" => Decided
    <3>1. op.at \in Changing => op # Idle
      BY DEF Changing, Idle, Work
    <3> QED BY <3>1, AtWork
  <2>3. CASE Change
    <3>1. \/ op.at \in Changing /\ op.ask.do # "reconcile"
          \/ UNCHANGED <<user, folder, cap>>
      BY <2>3 DEF Change, SetUserAccess, SetUserAccessOf, CreateNASFolder, CreateRefused, PrepareFolder,
         UndoFolder, RemoveDirectory, DeleteNASFolder, RemakeDirectory, SetKernelQuota,
         UpdateNASFolderManagement, UpdateManagementOf, SetNASUserQuota, Reconcile, Doing, Changing, tables
    <3> QED BY <2>1, <2>2, <3>1
  <2>4. CASE \E u \in Users, fs \in SUBSET Existing : CreateUserWithAccess(u, fs)
    <3>1. PICK u \in Users, fs \in SUBSET Existing : CreateUserWithAccess(u, fs)
      BY <2>4
    <3>2. user[u] = None /\ user' = [user EXCEPT ![u] = [admin |-> FALSE, on |-> TRUE]]
          /\ UNCHANGED <<folder, cap>>
      BY <3>1 DEF CreateUserWithAccess
    <3>3. \A v \in Known : user'[v] = user[v]
      BY <3>2 DEF Known, SharesInv, TablesFit
    <3> QED BY <3>2, <3>3
  <2>5. CASE StopSamba \/ EmptyConfig \/ BuildModel \/ WriteConfig \/ ReloadSamba \/ TryReconcile
    <3>1. UNCHANGED <<user, folder, cap>>
      BY <2>5 DEF StopSamba, EmptyConfig, BuildModel, WriteConfig, ReloadSamba, TryReconcile, tables
    <3> QED BY <2>1, <3>1
  <2>6. CASE (\E r \in waiting : Admit(r)) \/ (\E by \in Administrators : \E r \in Asked(by) : Ask(r))
             \/ (\E by \in Users : InstallSamba(by))
    <3>1. UNCHANGED <<user, folder, cap>>
      BY <2>6 DEF Admit, Ask, InstallSamba, tables
    <3> QED BY <2>1, <3>1
  <2>7. CASE Failure
    <3>1. UNCHANGED <<user, folder, cap>>
      BY <2>7 DEF Failure, CallFails, SuspendUnheard, PrepareUnheard, TestFails, CallAbandoned, LateStep,
         LateFails, CoreDies, HelperDies, Reboot, tables
    <3> QED BY <2>1, <3>1
  <2> QED BY <2>3, <2>4, <2>5, <2>6, <2>7 DEF SharesNext, Step, Request
<1>2. SharesInv => AdministratorRemains
  BY DEF SharesInv
<1> QED BY <1>1, <1>2, SharesKept, PTL DEF SharesSpec, AdministratorsDecide, AccessByAdministrator

-----------------------------------------------------------------------------
(* Which steps change the tables of folders and grants, and the directories.*)
LEMMA StepsOfTables ==
  ASSUME [SharesNext]_shareVars
  PROVE  \/ UNCHANGED <<folder, grant>> \/ SetUserAccess \/ CreateNASFolder \/ UndoFolder \/ DeleteNASFolder
         \/ UpdateNASFolderManagement \/ (\E u \in Users, fs \in SUBSET Existing : CreateUserWithAccess(u, fs))
<1>1. CASE Step
  BY <1>1 DEF Step, Change, StopSamba, EmptyConfig, BuildModel, WriteConfig, ReloadSamba, CreateRefused,
     PrepareFolder, RemoveDirectory, RemakeDirectory, SetKernelQuota, SetNASUserQuota, Reconcile, tables
<1>2. CASE Request
  BY <1>2 DEF Request, Ask, InstallSamba, tables
<1>3. CASE Failure
  BY <1>3 DEF Failure, CallFails, SuspendUnheard, PrepareUnheard, TestFails, CallAbandoned, LateStep,
     LateFails, CoreDies, HelperDies, Reboot, tables
<1>4. CASE TryReconcile \/ \E r \in waiting : Admit(r)
  BY <1>4 DEF TryReconcile, Admit, tables
<1>5. CASE UNCHANGED shareVars
  BY <1>5 DEF shareVars, tables
<1> QED BY <1>1, <1>2, <1>3, <1>4, <1>5 DEF SharesNext

-----------------------------------------------------------------------------
(* Folders and their owners.                                               *)
LEMMA OwnersKeep ==
  ASSUME SharesInv, OwnerKeepsFolder, [SharesNext]_shareVars
  PROVE  OwnerKeepsFolder'
<1>1. CASE UNCHANGED <<folder, grant>>
  BY <1>1 DEF OwnerKeepsFolder, Existing
<1>2. CASE SetUserAccess
  <2> DEFINE u == op.ask.user
  <2>1. /\ UNCHANGED folder
        /\ \/ UNCHANGED grant
           \/ grant' = {g \in grant : g[2] # u} \cup Pairs((op.ask.folders \cap Existing) \cup OwnedBy(u), {u})
    BY <1>2 DEF SetUserAccess, SetUserAccessOf
  <2>2. ASSUME NEW f \in Existing, folder[f].owner # None
        PROVE  <<f, folder[f].owner>> \in grant'
    <3>1. <<f, folder[f].owner>> \in grant
      BY <2>2 DEF OwnerKeepsFolder
    <3>2. CASE folder[f].owner = u
      <4>1. f \in OwnedBy(u)
        BY <3>2 DEF OwnedBy
      <4> HIDE DEF u
      <4> QED BY <2>1, <3>1, <3>2, <4>1 DEF Pairs
    <3>3. CASE folder[f].owner # u
      <4> HIDE DEF u
      <4> QED BY <2>1, <3>1, <3>3
    <3> QED BY <3>2, <3>3
  <2>3. Existing' = Existing
    BY <2>1 DEF Existing
  <2> QED BY <2>1, <2>2, <2>3 DEF OwnerKeepsFolder
<1>3. CASE CreateNASFolder
  <2> DEFINE x == op.ask.f
             o == op.ask.owner
  <2>1. /\ folder' = [folder EXCEPT ![x] = [owner |-> o, quota |-> 0, hard |-> 0]]
        /\ grant' = grant \cup (IF o = None THEN {} ELSE {<<x, o>>})
    BY <1>3 DEF CreateNASFolder
  <2> SUFFICES ASSUME NEW f \in Existing', folder'[f].owner # None
               PROVE  <<f, folder'[f].owner>> \in grant'
    BY DEF OwnerKeepsFolder
  <2> HIDE DEF x, o
  <2>2. f \in Folders
    BY DEF Existing
  <2>3. CASE f = x
    <3>1. folder'[f].owner = o
      BY <2>1, <2>2, <2>3 DEF SharesInv, TablesFit
    <3> QED BY <2>1, <2>3, <3>1
  <2>4. CASE f # x
    <3>1. folder'[f] = folder[f] /\ f \in Existing
      BY <2>1, <2>2, <2>4 DEF SharesInv, TablesFit, Existing
    <3> QED BY <2>1, <3>1 DEF OwnerKeepsFolder
  <2> QED BY <2>3, <2>4
<1>4. CASE UndoFolder \/ DeleteNASFolder
  <2> DEFINE x == op.ask.f
  <2>1. WithoutFolder(x)
    BY <1>4 DEF UndoFolder, DeleteNASFolder
  <2> SUFFICES ASSUME NEW f \in Existing', folder'[f].owner # None
               PROVE  <<f, folder'[f].owner>> \in grant'
    BY DEF OwnerKeepsFolder
  <2> HIDE DEF x
  <2>2. f # x /\ folder'[f] = folder[f] /\ f \in Existing
    BY <2>1 DEF WithoutFolder, SharesInv, TablesFit, Existing
  <2>3. <<f, folder[f].owner>> \in grant
    BY <2>2 DEF OwnerKeepsFolder
  <2> QED BY <2>1, <2>2, <2>3 DEF WithoutFolder
<1>5. CASE UpdateNASFolderManagement
  <2> DEFINE x == op.ask.f
  <2>1. /\ folder' = [folder EXCEPT ![x].quota = op.ask.quota, ![x].hard = Hard]
        /\ grant' = {g \in grant : g[1] # x} \cup Pairs({x}, op.ask.users \cup ({folder[x].owner} \ {None}))
    BY <1>5 DEF UpdateNASFolderManagement, UpdateManagementOf
  <2>2. x \in Existing /\ folder[x] \in FolderRow
    BY <1>5 DEF UpdateNASFolderManagement, UpdateManagementOf, Doing, SharesInv, WorkFits, TablesFit, Existing
  <2> SUFFICES ASSUME NEW f \in Existing', folder'[f].owner # None
               PROVE  <<f, folder'[f].owner>> \in grant'
    BY DEF OwnerKeepsFolder
  <2>3. f \in Folders
    BY DEF Existing
  <2>4. CASE f = x
    <3>1. folder'[f].owner = folder[x].owner
      BY <2>1, <2>2, <2>3, <2>4 DEF SharesInv, TablesFit, FolderRow
    <3> HIDE DEF x
    <3> QED BY <2>1, <2>4, <3>1 DEF Pairs
  <2>5. CASE f # x
    <3>1. folder'[f] = folder[f] /\ f \in Existing
      BY <2>1, <2>3, <2>5 DEF SharesInv, TablesFit, Existing
    <3>2. <<f, folder[f].owner>> \in grant
      BY <3>1 DEF OwnerKeepsFolder
    <3> HIDE DEF x
    <3> QED BY <2>1, <2>5, <3>1, <3>2
  <2> QED BY <2>4, <2>5
<1>6. CASE \E u \in Users, fs \in SUBSET Existing : CreateUserWithAccess(u, fs)
  <2>1. UNCHANGED folder /\ grant \subseteq grant'
    BY <1>6 DEF CreateUserWithAccess
  <2> QED BY <2>1 DEF OwnerKeepsFolder, Existing
<1>7. \/ UNCHANGED <<folder, grant>> \/ SetUserAccess \/ CreateNASFolder \/ UndoFolder \/ DeleteNASFolder
      \/ UpdateNASFolderManagement \/ (\E u \in Users, fs \in SUBSET Existing : CreateUserWithAccess(u, fs))
  BY StepsOfTables
<1> QED BY <1>1, <1>2, <1>3, <1>4, <1>5, <1>6, <1>7

-----------------------------------------------------------------------------
(* Folders and their directories: which are without one, which of them are *)
(* left so by nobody at work, and where a creation and a deletion are when *)
(* theirs may be.                                                          *)
Without == Existing \ dir
Making  == op.at # "idle" /\ op.ask.do \in {"create", "delete"}
Bare == {f \in Without : op = Idle \/ op.ask.do \notin {"create", "delete"} \/ op.ask.f # f}
MakingFits ==
  Making =>
    /\ op.ask.do = "create" => op.at \notin {"commit", "remake"}
    /\ op.ask.do = "delete" => op.at \notin {"mkdir", "undo"}
    /\ op.at \notin {"mkdir", "undo", "commit", "remake"} => op.ask.f \notin Without
DirectoriesInv == MakingFits /\ cuts \in Nat /\ Cardinality(Bare) <= cuts

LEMMA CountKeeps ==
  ASSUME DirectoriesInv, MakingFits',
         \/ cuts' \in {cuts, cuts + 1} /\ Bare' \subseteq Bare
         \/ cuts' = cuts + 1 /\ \E x : Bare' \subseteq Bare \cup {x}
  PROVE  DirectoriesInv'
<1>1. IsFiniteSet(Bare) /\ cuts \in Nat /\ Cardinality(Bare) <= cuts /\ Cardinality(Bare) \in Nat
  <2>1. Bare \subseteq Folders
    BY DEF Bare, Without, Existing
  <2> QED BY <2>1, SharesAssumption, FS_Subset, FS_CardinalityType DEF DirectoriesInv
<1>2. CASE cuts' \in {cuts, cuts + 1} /\ Bare' \subseteq Bare
  <2>1. Cardinality(Bare') <= Cardinality(Bare) /\ Cardinality(Bare') \in Nat
    BY <1>1, <1>2, FS_Subset, FS_CardinalityType
  <2> QED BY <1>1, <1>2, <2>1 DEF DirectoriesInv
<1>3. CASE cuts' = cuts + 1 /\ \E x : Bare' \subseteq Bare \cup {x}
  <2>1. PICK x : Bare' \subseteq Bare \cup {x}
    BY <1>3
  <2>2. /\ IsFiniteSet(Bare \cup {x}) /\ Cardinality(Bare \cup {x}) \in Nat
        /\ Cardinality(Bare \cup {x}) <= Cardinality(Bare) + 1
    <3>1. IsFiniteSet(Bare \cup {x})
      BY <1>1, FS_AddElement
    <3>2. Cardinality(Bare \cup {x}) = Cardinality(Bare) \/ Cardinality(Bare \cup {x}) = Cardinality(Bare) + 1
      BY <1>1, FS_AddElement
    <3> QED BY <1>1, <3>1, <3>2
  <2>3. Cardinality(Bare') <= Cardinality(Bare \cup {x}) /\ Cardinality(Bare') \in Nat
    BY <2>1, <2>2, FS_Subset, FS_CardinalityType
  <2> QED BY <1>1, <1>3, <2>2, <2>3 DEF DirectoriesInv
<1> QED BY <1>2, <1>3

(* The change goes on.                                                     *)
LEMMA GoingOnKeeps ==
  ASSUME DirectoriesInv, MakingFits', op.at # "idle", op'.at # "idle", op'.ask = op.ask, cuts' = cuts,
         \A f \in Without' : f \in Without \/ (op.ask.do \in {"create", "delete"} /\ op.ask.f = f)
  PROVE  DirectoriesInv'
<1>1. op # Idle /\ op' # Idle
  BY DEF Idle, Work
<1>2. Bare' \subseteq Bare
  BY <1>1 DEF Bare, Idle, Work
<1> QED BY <1>2, CountKeeps

(* It ends, or is cut off.                                                 *)
LEMMA EndingKeeps ==
  ASSUME SharesInv, DirectoriesInv, op' = Idle, Without' \subseteq Without,
         \/ cuts' = cuts + 1
         \/ cuts' = cuts /\ (Making => op.ask.f \notin Without')
  PROVE  DirectoriesInv'
<1>1. MakingFits'
  BY DEF MakingFits, Making, Idle, Work
<1>2. Bare' = Without' /\ Bare' \subseteq Bare \cup {op.ask.f}
  BY DEF Bare, Idle, Work
<1>3. CASE cuts' = cuts /\ (Making => op.ask.f \notin Without')
  <2>1. ~Making => op = Idle \/ op.ask.do \notin {"create", "delete"}
    BY DEF Making, SharesInv, WorkFits
  <2>2. Bare' \subseteq Bare
    BY <1>2, <1>3, <2>1 DEF Bare
  <2> QED BY <1>1, <1>3, <2>2, CountKeeps
<1> QED BY <1>1, <1>2, <1>3, CountKeeps

(* Nobody is at work on it.                                                *)
LEMMA BesidesKeeps ==
  ASSUME DirectoriesInv, op' = op, cuts' = cuts, Without' = Without
  PROVE  DirectoriesInv'
<1>1. Bare' = Bare /\ MakingFits'
  BY DEF Bare, DirectoriesInv, MakingFits, Making, Idle, Work
<1> QED BY <1>1, CountKeeps

(* The mutex is won.                                                       *)
LEMMA BeginningKeeps ==
  ASSUME SharesInv, DirectoriesInv, op = Idle, cuts' = cuts, Without' = Without,
         NEW r, op' = Work(r, First(r), r.do = "apply"),
         r.do \in {"create", "delete"} => r.f \notin Without
  PROVE  DirectoriesInv'
<1>1. op'.ask = r /\ op'.at \in {"stop", "build"}
  BY DEF Work, First
<1>2. MakingFits'
  BY <1>1 DEF MakingFits, Making
<1>3. Bare' \subseteq Bare
  BY DEF Bare
<1> QED BY <1>2, <1>3, CountKeeps

LEMMA WithoutStays ==
  ASSUME UNCHANGED <<folder, dir>>
  PROVE  Without' = Without
BY DEF Without, Existing

-----------------------------------------------------------------------------
(* The steps at the helper.                                                *)
LEMMA HelperStepsOfDirectories ==
  ASSUME SharesInv, DirectoriesInv,
         StopSamba \/ EmptyConfig \/ WriteConfig \/ BuildModel \/ ReloadSamba
  PROVE  DirectoriesInv'
<1>1. UNCHANGED <<tables, disk, cuts>> /\ Without' = Without
  <2>1. UNCHANGED <<tables, disk, cuts>>
    BY DEF StopSamba, EmptyConfig, WriteConfig, BuildModel, ReloadSamba, GoOn, End, EndWith, history
  <2> QED BY <2>1, WithoutStays DEF tables, disk
<1>2. op.at \in {"stop", "empty", "write", "build", "test"}
  BY DEF StopSamba, EmptyConfig, WriteConfig, BuildModel, ReloadSamba
<1>3. CASE op' = Idle
  <2>1. Making => op.ask.f \notin Without
    BY <1>2 DEF DirectoriesInv, MakingFits
  <2> QED BY <1>1, <1>3, <2>1, EndingKeeps
<1>4. CASE op' # Idle
  <2>1. op'.ask = op.ask /\ op'.at \in {"work", "empty", "write", "test"}
    <3>1. \/ op' = [op EXCEPT !.at = "work", !.active = FALSE]
          \/ op' = [op EXCEPT !.at = "empty", !.active = TRUE]
          \/ op' = [op EXCEPT !.at = "work"]
          \/ op' = [op EXCEPT !.at = "write", !.model = Shared]
          \/ op' = [op EXCEPT !.at = "test", !.old = conf]
      BY <1>4 DEF StopSamba, EmptyConfig, WriteConfig, BuildModel, ReloadSamba, GoOn, End, EndWith
    <3>2. \/ OpIs("work", FALSE, op.model, op.old) \/ OpIs("empty", TRUE, op.model, op.old)
          \/ op' = [op EXCEPT !.at = "work"]
          \/ OpIs("write", op.active, Shared, op.old) \/ OpIs("test", op.active, op.model, conf)
      BY <3>1, OpBecomes DEF SharesInv
    <3> QED BY <3>2 DEF OpIs, SharesInv, WorkFits
  <2>2. MakingFits'
    BY <1>1, <1>2, <2>1 DEF DirectoriesInv, MakingFits, Making
  <2> QED BY <1>1, <1>2, <2>1, <2>2, GoingOnKeeps
<1> QED BY <1>3, <1>4

(* The changes of tables and directories.                                  *)
LEMMA ChangesOfDirectories ==
  ASSUME SharesInv, DirectoriesInv, Change
  PROVE  DirectoriesInv'
<1> DEFINE x == op.ask.f
<1>1. CASE CreateRefused
  <2>1. /\ op' = Idle /\ UNCHANGED <<tables, disk, cuts>> /\ op.at = "work"
    BY <1>1 DEF CreateRefused, EndWith, Doing
  <2>2. Without' = Without
    BY <2>1, WithoutStays DEF tables, disk
  <2> QED BY <2>1, <2>2, EndingKeeps DEF DirectoriesInv, MakingFits
<1>2. CASE UndoFolder
  <2>1. /\ op' = Idle /\ UNCHANGED <<dir, cuts>> /\ folder' = [folder EXCEPT ![x] = None]
    BY <1>2 DEF UndoFolder, EndWith, disk, WithoutFolder
  <2> HIDE DEF x
  <2>2. Without' \subseteq Without /\ x \notin Without'
    BY <2>1 DEF Without, Existing, SharesInv, TablesFit
  <2> QED BY <2>1, <2>2, EndingKeeps DEF x
<1>3. ASSUME NEW at, GoOn(at), at # "idle", op.at # "idle", MakingFits',
             \A f \in Without' : f \in Without \/ (op.ask.do \in {"create", "delete"} /\ x = f)
      PROVE  DirectoriesInv'
  <2>1. op'.ask = op.ask /\ op'.at = at /\ cuts' = cuts
    BY <1>3 DEF GoOn, history, SharesInv, WorkFits
  <2> QED BY <1>3, <2>1, GoingOnKeeps
<1>4. ASSUME NEW at, GoOn(at) PROVE op'.ask = op.ask /\ op'.at = at
  BY <1>4 DEF GoOn, SharesInv, WorkFits
<1>5. CASE CreateNASFolder
  <2>1. /\ op.ask.do = "create" /\ op.at # "idle" /\ GoOn("mkdir") /\ UNCHANGED dir
        /\ \E r : folder' = [folder EXCEPT ![x] = r]
    BY <1>5 DEF CreateNASFolder, Doing, disk
  <2>2. MakingFits'
    BY <1>4, <2>1 DEF MakingFits, Making
  <2> HIDE DEF x
  <2>3. \A f \in Without' : f \in Without \/ x = f
    BY <2>1 DEF Without, Existing, SharesInv, TablesFit
  <2> QED BY <1>3, <2>1, <2>2, <2>3
<1>6. CASE PrepareFolder \/ RemakeDirectory
  <2>1. /\ op.ask.do \in {"create", "delete"} /\ op.at # "idle" /\ GoOn("build") /\ dir' = dir \cup {x}
        /\ UNCHANGED folder
    BY <1>6 DEF PrepareFolder, RemakeDirectory, Doing, tables
  <2>2. Without' \subseteq Without /\ x \notin Without'
    BY <2>1 DEF Without, Existing
  <2>3. MakingFits'
    BY <1>4, <2>1, <2>2 DEF MakingFits, Making
  <2> QED BY <1>3, <2>1, <2>2, <2>3
<1>7. CASE RemoveDirectory
  <2>1. /\ op.ask.do = "delete" /\ op.at # "idle" /\ GoOn("commit") /\ dir' = dir \ {x} /\ UNCHANGED folder
    BY <1>7 DEF RemoveDirectory, Doing, tables
  <2>2. MakingFits'
    BY <1>4, <2>1 DEF MakingFits, Making
  <2>3. \A f \in Without' : f \in Without \/ x = f
    BY <2>1 DEF Without, Existing
  <2> QED BY <1>3, <2>1, <2>2, <2>3
<1>8. CASE DeleteNASFolder
  <2>1. /\ op.ask.do = "delete" /\ op.at # "idle" /\ GoOn("build") /\ UNCHANGED dir
        /\ folder' = [folder EXCEPT ![x] = None]
    BY <1>8 DEF DeleteNASFolder, Doing, disk, WithoutFolder
  <2> HIDE DEF x
  <2>2. Without' \subseteq Without /\ x \notin Without'
    BY <2>1 DEF Without, Existing, SharesInv, TablesFit
  <2>3. MakingFits'
    BY <1>4, <2>1, <2>2 DEF MakingFits, Making, x
  <2> QED BY <1>3, <2>1, <2>2, <2>3
<1>9. CASE UpdateNASFolderManagement
  <2>1. /\ op.ask.do = "manage" /\ op.at # "idle" /\ GoOn("build") /\ UNCHANGED dir /\ x \in Existing
        /\ folder' = [folder EXCEPT ![x].quota = op.ask.quota, ![x].hard = Hard]
    BY <1>9 DEF UpdateNASFolderManagement, UpdateManagementOf, Doing, disk, SharesInv, WorkFits
  <2>2. \A f \in Folders : f # x => folder'[f] = folder[f]
    BY <2>1 DEF SharesInv, TablesFit
  <2>3. Without' \subseteq Without
    BY <2>1, <2>2 DEF Without, Existing
  <2>4. MakingFits'
    BY <1>4, <2>1 DEF MakingFits, Making
  <2> QED BY <1>3, <2>1, <2>3, <2>4
<1>10. CASE SetUserAccess \/ SetKernelQuota \/ SetNASUserQuota \/ Reconcile
  <2>1. /\ op.ask.do \notin {"create", "delete"} /\ op.at # "idle" /\ (GoOn("build") \/ GoOn("commit"))
        /\ UNCHANGED <<folder, dir>>
    BY <1>10 DEF SetUserAccess, SetUserAccessOf, SetKernelQuota, SetNASUserQuota, Reconcile, Doing, tables, disk
  <2>2. Without' = Without
    BY <2>1, WithoutStays
  <2>3. MakingFits'
    BY <1>4, <2>1 DEF MakingFits, Making
  <2> QED BY <1>3, <2>1, <2>2, <2>3
<1> QED BY <1>1, <1>2, <1>5, <1>6, <1>7, <1>8, <1>9, <1>10 DEF Change

(* Failures.                                                               *)
LEMMA FailuresOfDirectories ==
  ASSUME SharesInv, DirectoriesInv, Failure
  PROVE  DirectoriesInv'
<1>1. ASSUME op' = Idle, UNCHANGED <<tables, disk>>,
             cuts' = cuts + 1 \/ (cuts' = cuts /\ (Making => op.ask.f \notin Without))
      PROVE  DirectoriesInv'
  <2>1. Without' = Without
    BY <1>1, WithoutStays DEF tables, disk
  <2> QED BY <1>1, <2>1, EndingKeeps
<1>2. ASSUME op # Idle, Fail, Without' \subseteq Without,
             UNCHANGED <<tables, disk>> \/ Doing("create", "mkdir")
      PROVE  DirectoriesInv'
  <2>1. op.at # "idle"
    BY <1>2 DEF SharesInv, WorkFits
  <2>2. CASE After(op.at) = "end"
    <3>1. /\ op' = Idle
          /\ IF op.at \in {"undo", "remake"} THEN cuts' = cuts + 1 ELSE cuts' = cuts
      BY <1>2, <2>2 DEF Fail, EndWith
    <3>2. op.at \notin {"undo", "remake"} /\ Making => op.ask.f \notin Without
      BY <2>2 DEF After, DirectoriesInv, MakingFits, Making
    <3>3. UNCHANGED <<tables, disk>>
      BY <1>2, <2>2 DEF After, Doing
    <3> QED BY <1>1, <1>2, <3>1, <3>2, <3>3
  <2>3. CASE After(op.at) # "end"
    <3>1. op'.ask = op.ask /\ op'.at = After(op.at) /\ cuts' = cuts
      BY <1>2, <2>3 DEF Fail, SharesInv, WorkFits, history
    <3>2. /\ op'.at # "idle"
          /\ \/ op.at = "work" /\ op'.at = "build"
             \/ op.ask.do = "create" /\ op'.at = "undo"
             \/ op.ask.do = "delete" /\ op'.at = "remake"
      BY <2>3, <3>1 DEF After
    <3>3. MakingFits'
      BY <1>2, <3>1, <3>2 DEF DirectoriesInv, MakingFits, Making
    <3> QED BY <1>2, <2>1, <3>1, <3>2, <3>3, GoingOnKeeps
  <2> QED BY <2>2, <2>3
<1>3. CASE CallFails
  <2>1. Without' = Without
    BY <1>3, WithoutStays DEF CallFails, tables, disk
  <2> QED BY <1>2, <1>3, <2>1 DEF CallFails
<1>4. CASE PrepareUnheard
  <2>1. Without' \subseteq Without
    BY <1>4 DEF PrepareUnheard, tables, Without, Existing
  <2>2. op # Idle
    BY <1>4 DEF PrepareUnheard, Doing, Idle, Work
  <2> QED BY <1>2, <1>4, <2>1, <2>2 DEF PrepareUnheard
<1>5. CASE SuspendUnheard \/ TestFails
  <2>1. op' = Idle /\ UNCHANGED <<tables, disk, cuts>> /\ op.at \in {"work", "test"}
    BY <1>5 DEF SuspendUnheard, TestFails, EndWith
  <2> QED BY <1>1, <2>1 DEF DirectoriesInv, MakingFits
<1>6. CASE CoreDies \/ Reboot
  BY <1>1, <1>6 DEF CoreDies, Reboot, Cut
<1>8. CASE CallAbandoned
  <2>1. op' = Idle /\ UNCHANGED <<tables, disk, cuts>> /\ op.at \in {"stop", "empty", "write", "test"}
    BY <1>8 DEF CallAbandoned, EndWith, InHelper
  <2> QED BY <1>1, <2>1 DEF DirectoriesInv, MakingFits
<1>9. CASE LateStep \/ LateFails
  <2>1. op' = op /\ cuts' = cuts /\ Without' = Without
    BY <1>9, WithoutStays DEF LateStep, LateFails, history, tables, disk
  <2> QED BY <2>1, BesidesKeeps
<1>7. CASE HelperDies
  <2>1. CASE InHelper
    <3>1. op' = Idle /\ UNCHANGED <<tables, disk, cuts>> /\ op.at \in {"stop", "empty", "write", "test"}
      BY <1>7, <2>1 DEF HelperDies, EndWith, InHelper
    <3> QED BY <1>1, <3>1 DEF DirectoriesInv, MakingFits
  <2>2. CASE ~InHelper
    <3>1. op' = op /\ cuts' = cuts /\ Without' = Without
      BY <1>7, <2>2, WithoutStays DEF HelperDies, tables, disk
    <3> QED BY <3>1, BesidesKeeps
  <2> QED BY <2>1, <2>2
<1> QED BY <1>3, <1>4, <1>5, <1>6, <1>7, <1>8, <1>9 DEF Failure

LEMMA DirectoriesStep == SharesInv /\ DirectoriesInv /\ [SharesNext]_shareVars => DirectoriesInv'
<1> SUFFICES ASSUME SharesInv, DirectoriesInv, [SharesNext]_shareVars PROVE DirectoriesInv'
  OBVIOUS
<1>1. CASE UNCHANGED shareVars
  <2>1. op' = op /\ cuts' = cuts /\ UNCHANGED <<folder, dir>>
    BY <1>1 DEF shareVars, tables, disk, history
  <2> QED BY <2>1, WithoutStays, BesidesKeeps
<1>2. CASE Request
  <2>1. op' = op /\ cuts' = cuts /\ UNCHANGED <<folder, dir>>
    BY <1>2 DEF Request, Ask, CreateUserWithAccess, InstallSamba, tables, disk, history
  <2> QED BY <2>1, WithoutStays, BesidesKeeps
<1>3. CASE TryReconcile
  <2>1. /\ op = Idle /\ cuts' = cuts /\ UNCHANGED <<folder, dir>> /\ Reconciliation.do = "reconcile"
        /\ op' = Work(Reconciliation, First(Reconciliation), Reconciliation.do = "apply")
    BY <1>3 DEF TryReconcile, Reconciliation, First, tables, disk, history
  <2> QED BY <2>1, WithoutStays, BeginningKeeps
<1>4. CASE \E r \in waiting : Admit(r)
  <2>1. PICK r \in waiting : Admit(r)
    BY <1>4
  <2>2. op = Idle /\ cuts' = cuts /\ UNCHANGED <<folder, dir>>
    BY <2>1 DEF Admit, tables, disk, history
  <2>3. CASE UNCHANGED op
    BY <2>2, <2>3, WithoutStays, BesidesKeeps
  <2>4. CASE ~Refused(r) /\ Begin(r)
    <3>1. r.do \in {"create", "delete"} => r.f \notin Without
      BY <2>4 DEF Refused, Without, FreeIds, Existing
    <3> QED BY <2>2, <2>4, <3>1, WithoutStays, BeginningKeeps DEF Begin
  <2> QED BY <2>1, <2>3, <2>4 DEF Admit
<1> QED BY <1>1, <1>2, <1>3, <1>4, HelperStepsOfDirectories, ChangesOfDirectories, FailuresOfDirectories
        DEF SharesNext, Step

(* The owner of a private folder always has access to it, whatever access  *)
(* is given to the user or to the folder; and a folder without a directory *)
(* was left so by a death of Core or a clean-up that failed as well.       *)
THEOREM FoldersHold == SharesSpec => [](OwnerKeepsFolder /\ FolderHasDirectory)
<1>1. SharesInit => OwnerKeepsFolder /\ DirectoriesInv
  <2> SUFFICES ASSUME SharesInit PROVE OwnerKeepsFolder /\ DirectoriesInv
    OBVIOUS
  <2>1. PICK absent \in SUBSET Latecomers, admins \in SUBSET Users, hard \in 0..MaxQuota :
          SetUp(absent, admins, hard, {f \in DOMAIN HomeOf : HomeOf[f] \notin absent})
    BY DEF SharesInit
  <2> DEFINE homes == {f \in DOMAIN HomeOf : HomeOf[f] \notin absent}
  <2> HIDE DEF homes
  <2>2. /\ folder = [f \in Folders |-> IF f \notin homes THEN None
                                      ELSE [owner |-> HomeOf[f], quota |-> hard, hard |-> hard]]
        /\ grant = {<<f, HomeOf[f]>> : f \in homes} /\ dir = homes
    BY <2>1 DEF SetUp, homes
  <2>3. \A f \in Existing : f \in homes /\ folder[f].owner = HomeOf[f]
    BY <2>2 DEF Existing
  <2>4. OwnerKeepsFolder
    BY <2>2, <2>3 DEF OwnerKeepsFolder
  <2>5. Bare = {} /\ op = Idle /\ cuts = 0
    BY <2>2, <2>3 DEF Bare, Without, SharesInit
  <2>6. Cardinality(Bare) <= cuts
    BY <2>5, FS_EmptySet
  <2> QED BY <2>4, <2>5, <2>6 DEF DirectoriesInv, MakingFits, Making, Idle, Work
<1>2. SharesInv /\ OwnerKeepsFolder /\ DirectoriesInv /\ [SharesNext]_shareVars
        => OwnerKeepsFolder' /\ DirectoriesInv'
  BY OwnersKeep, DirectoriesStep
<1>3. DirectoriesInv => FolderHasDirectory
  BY DEF DirectoriesInv, FolderHasDirectory, Bare, Without
<1> QED BY <1>1, <1>2, <1>3, SharesKept, PTL DEF SharesSpec

-----------------------------------------------------------------------------
(* Sums over finite sets.  Total and QuotaIsEnforced are folds, and a fold *)
(* is a recursive function: here it has a name, as every function the      *)
(* equation has.                                                           *)
FirstOf(s) == CHOOSE x \in s : TRUE
IsSum(g, k, S) ==
  g = [s \in SUBSET S |-> IF s = {} THEN 0
                          ELSE k[FirstOf(s)] + g[s \ {FirstOf(s)}]]
SumsOf(k, S) == CHOOSE g : IsSum(g, k, S)
SumOf(k, S) == SumsOf(k, S)[S]

(* Of the subsets of a finite set that lack something, one is smallest.    *)
LEMMA Smallest ==
  ASSUME NEW S, IsFiniteSet(S), NEW B \in SUBSET (SUBSET S), B # {}
  PROVE  \E b \in B : \A c \in B : c \subseteq b => c = b
<1> DEFINE N == {Cardinality(b) : b \in B}
           R == OpToRel(<, Nat)
<1>1. \A b \in B : IsFiniteSet(b) /\ Cardinality(b) \in Nat
  BY FS_Subset, FS_CardinalityType
<1>2. N \subseteq Nat /\ N # {}
  BY <1>1
<1>3. IsWellFoundedOn(R, Nat)
  BY NatLessThanWellFounded
<1>4. \A x, y \in Nat : <<x, y>> \in R <=> x < y
  BY DEF OpToRel
<1> HIDE DEF N, R
<1>5. PICK n \in N : \A m \in N : ~ (<<m, n>> \in R)
  BY <1>2, <1>3, WFMin
<1>6. PICK b \in B : n = Cardinality(b)
  BY <1>5 DEF N
<1>7. ASSUME NEW c \in B, c \subseteq b PROVE c = b
  <2>1. Cardinality(c) \in N /\ Cardinality(c) \in Nat /\ n \in Nat
    BY <1>1, <1>2 DEF N
  <2>2. ~(Cardinality(c) < n)
    BY <1>4, <1>5, <2>1
  <2>3. Cardinality(c) <= Cardinality(b) /\ (Cardinality(c) = Cardinality(b) => c = b)
    BY <1>1, <1>7, FS_Subset
  <2> QED BY <1>6, <2>1, <2>2, <2>3
<1> QED BY <1>7

(* A non-empty set has its first element.                                  *)
LEMMA FirstIsIn ==
  ASSUME NEW s, s # {} PROVE FirstOf(s) \in s
BY DEF FirstOf

(* Two such functions agree where both are defined.                        *)
LEMMA SumsAgree ==
  ASSUME NEW S, IsFiniteSet(S), NEW k, NEW A \in SUBSET S, NEW B \in SUBSET S,
         NEW g, NEW h, IsSum(g, k, A), IsSum(h, k, B)
  PROVE  \A s \in SUBSET (A \cap B) : g[s] = h[s]
<1> DEFINE D == {s \in SUBSET (A \cap B) : g[s] # h[s]}
<1>1. SUFFICES ASSUME D # {} PROVE FALSE
  OBVIOUS
<1>2. D \in SUBSET (SUBSET S)
  OBVIOUS
<1> HIDE DEF D
<1>3. PICK b \in D : \A c \in D : c \subseteq b => c = b
  BY <1>1, <1>2, Smallest
<1>4. b \subseteq A /\ b \subseteq B /\ g[b] # h[b]
  BY DEF D
<1>5. g[b] = IF b = {} THEN 0 ELSE k[FirstOf(b)] + g[b \ {FirstOf(b)}]
  BY <1>4 DEF IsSum
<1>6. h[b] = IF b = {} THEN 0 ELSE k[FirstOf(b)] + h[b \ {FirstOf(b)}]
  BY <1>4 DEF IsSum
<1>7. CASE b = {}
  BY <1>4, <1>5, <1>6, <1>7
<1>8. CASE b # {}
  <2>1. FirstOf(b) \in b
    BY <1>8, FirstIsIn
  <2> DEFINE r == b \ {FirstOf(b)}
  <2>2. r \subseteq b /\ r # b
    BY <2>1
  <2> HIDE DEF r
  <2>3. r \notin D
    BY <1>3, <2>2
  <2>4. g[r] = h[r]
    BY <1>4, <2>2, <2>3 DEF D
  <2> QED BY <1>4, <1>5, <1>6, <1>8, <2>4 DEF r
<1> QED BY <1>7, <1>8

(* And there is one for every finite set.                                  *)
LEMMA SumsExist ==
  ASSUME NEW S, IsFiniteSet(S), NEW k
  PROVE  \A T \in SUBSET S : IsSum(SumsOf(k, T), k, T)
<1> DEFINE Lacking == {T \in SUBSET S : ~IsSum(SumsOf(k, T), k, T)}
<1>1. SUFFICES ASSUME Lacking # {} PROVE FALSE
  OBVIOUS
<1>2. Lacking \in SUBSET (SUBSET S)
  OBVIOUS
<1> HIDE DEF Lacking
<1>3. PICK T \in Lacking : \A c \in Lacking : c \subseteq T => c = T
  BY <1>1, <1>2, Smallest
<1>4. T \subseteq S /\ ~IsSum(SumsOf(k, T), k, T)
  BY DEF Lacking
<1>5. \A g : ~IsSum(g, k, T)
  BY <1>4 DEF SumsOf
<1>6. \A u \in SUBSET T : u # T => IsSum(SumsOf(k, u), k, u)
  BY <1>3, <1>4 DEF Lacking
<1> DEFINE G == [s \in SUBSET T |-> IF s = {} THEN 0 ELSE k[FirstOf(s)] + SumOf(k, s \ {FirstOf(s)})]
<1>7. ASSUME NEW u \in SUBSET T, u # T PROVE G[u] = SumOf(k, u)
  <2>1. IsSum(SumsOf(k, u), k, u)
    BY <1>6, <1>7
  <2>2. SumsOf(k, u)[u] = IF u = {} THEN 0 ELSE k[FirstOf(u)] + SumsOf(k, u)[u \ {FirstOf(u)}]
    <3> DEFINE h == SumsOf(k, u)
    <3>1. h = [s \in SUBSET u |-> IF s = {} THEN 0 ELSE k[FirstOf(s)] + h[s \ {FirstOf(s)}]]
      BY <2>1 DEF IsSum
    <3> HIDE DEF h
    <3>2. h[u] = IF u = {} THEN 0 ELSE k[FirstOf(u)] + h[u \ {FirstOf(u)}]
      BY <3>1
    <3> QED BY <3>2 DEF h
  <2>3. CASE u = {}
    BY <2>2, <2>3 DEF SumOf
  <2>4. CASE u # {}
    <3> DEFINE r == u \ {FirstOf(u)}
    <3>1. FirstOf(u) \in u
      BY <2>4, FirstIsIn
    <3>2. r \in SUBSET u /\ r # T /\ r \in SUBSET T
      BY <1>7, <3>1
    <3> HIDE DEF r
    <3>3. IsSum(SumsOf(k, r), k, r)
      BY <1>6, <3>2
    <3>4. u \in SUBSET S /\ r \in SUBSET S /\ r \in SUBSET (u \cap r)
      BY <1>4, <3>2
    <3>5. \A t \in SUBSET (u \cap r) : SumsOf(k, u)[t] = SumsOf(k, r)[t]
      BY <2>1, <3>3, <3>4, SumsAgree
    <3>6. G[u] = k[FirstOf(u)] + SumOf(k, r)
      BY <2>4 DEF r
    <3> QED BY <2>2, <2>4, <3>4, <3>5, <3>6 DEF SumOf, r
  <2> QED BY <2>3, <2>4
<1>8. ASSUME NEW s \in SUBSET T, s # {}
      PROVE  G[s \ {FirstOf(s)}] = SumOf(k, s \ {FirstOf(s)})
  <2>1. FirstOf(s) \in s
    BY <1>8, FirstIsIn
  <2>2. s \ {FirstOf(s)} \in SUBSET T /\ s \ {FirstOf(s)} # T
    BY <2>1
  <2> QED BY <1>7, <2>2
<1>9. \A s \in SUBSET T : G[s] = IF s = {} THEN 0 ELSE k[FirstOf(s)] + G[s \ {FirstOf(s)}]
  <2> TAKE s \in SUBSET T
  <2>1. G[s] = IF s = {} THEN 0 ELSE k[FirstOf(s)] + SumOf(k, s \ {FirstOf(s)})
    OBVIOUS
  <2>2. s # {} => G[s \ {FirstOf(s)}] = SumOf(k, s \ {FirstOf(s)})
    BY <1>8
  <2> HIDE DEF G
  <2> QED BY <2>1, <2>2
<1>10. G = [s \in SUBSET T |-> G[s]]
  OBVIOUS
<1> HIDE DEF G
<1>11. IsSum(G, k, T)
  BY <1>9, <1>10 DEF IsSum
<1> QED BY <1>5, <1>11

(* What is summed up: nothing, or an element and the sum of the others.    *)
LEMMA SumIs ==
  ASSUME NEW S, IsFiniteSet(S), NEW k
  PROVE  SumOf(k, S) = IF S = {} THEN 0 ELSE k[FirstOf(S)] + SumOf(k, S \ {FirstOf(S)})
<1>1. IsSum(SumsOf(k, S), k, S)
  BY SumsExist
<1> DEFINE h == SumsOf(k, S)
<1>2. h = [s \in SUBSET S |-> IF s = {} THEN 0 ELSE k[FirstOf(s)] + h[s \ {FirstOf(s)}]]
  BY <1>1 DEF IsSum
<1> HIDE DEF h
<1>3. h[S] = IF S = {} THEN 0 ELSE k[FirstOf(S)] + h[S \ {FirstOf(S)}]
  BY <1>2
<1> DEFINE r == S \ {FirstOf(S)}
<1>4. r \in SUBSET S /\ r \in SUBSET (S \cap r)
  OBVIOUS
<1> HIDE DEF r
<1>5. IsSum(SumsOf(k, r), k, r)
  BY <1>4, SumsExist
<1>6. SumsOf(k, S)[r] = SumsOf(k, r)[r]
  BY <1>1, <1>4, <1>5, SumsAgree
<1> QED BY <1>3, <1>6 DEF h, r, SumOf

(* A sum of natural numbers is one.                                        *)
LEMMA SumIsNat ==
  ASSUME NEW S, IsFiniteSet(S), NEW k, \A x \in S : k[x] \in Nat
  PROVE  \A T \in SUBSET S : SumOf(k, T) \in Nat
<1> DEFINE D == {T \in SUBSET S : SumOf(k, T) \notin Nat}
<1>1. SUFFICES ASSUME D # {} PROVE FALSE
  OBVIOUS
<1>2. D \in SUBSET (SUBSET S)
  OBVIOUS
<1> HIDE DEF D
<1>3. PICK T \in D : \A c \in D : c \subseteq T => c = T
  BY <1>1, <1>2, Smallest
<1>4. T \subseteq S /\ SumOf(k, T) \notin Nat /\ IsFiniteSet(T)
  BY FS_Subset DEF D
<1>5. SumOf(k, T) = IF T = {} THEN 0 ELSE k[FirstOf(T)] + SumOf(k, T \ {FirstOf(T)})
  BY <1>4, SumIs
<1>6. T # {}
  BY <1>4, <1>5
<1>7. FirstOf(T) \in T
  BY <1>6, FirstIsIn
<1>8. T \ {FirstOf(T)} \notin D /\ T \ {FirstOf(T)} \subseteq S
  BY <1>3, <1>4, <1>7
<1>9. SumOf(k, T \ {FirstOf(T)}) \in Nat /\ k[FirstOf(T)] \in Nat
  BY <1>4, <1>7, <1>8 DEF D
<1> QED BY <1>4, <1>5, <1>6, <1>9

(* Any of the elements can be the first.                                   *)
LEMMA SumOfOne ==
  ASSUME NEW S, IsFiniteSet(S), NEW k, \A x \in S : k[x] \in Nat
  PROVE  \A T \in SUBSET S : \A x \in T : SumOf(k, T) = k[x] + SumOf(k, T \ {x})
<1> DEFINE D == {T \in SUBSET S : \E x \in T : SumOf(k, T) # k[x] + SumOf(k, T \ {x})}
<1>1. SUFFICES ASSUME D # {} PROVE FALSE
  OBVIOUS
<1>2. D \in SUBSET (SUBSET S)
  OBVIOUS
<1> HIDE DEF D
<1>3. PICK T \in D : \A c \in D : c \subseteq T => c = T
  BY <1>1, <1>2, Smallest
<1>4. PICK x \in T : SumOf(k, T) # k[x] + SumOf(k, T \ {x})
  BY DEF D
<1>5. T \subseteq S /\ IsFiniteSet(T) /\ T # {}
  BY <1>4, FS_Subset DEF D
<1>6. PICK y \in T : SumOf(k, T) = k[y] + SumOf(k, T \ {y})
  BY <1>5, SumIs, FirstIsIn
<1>7. x # y
  BY <1>4, <1>6
<1>8. /\ T \ {y} \notin D /\ T \ {y} \subseteq S /\ x \in T \ {y}
      /\ T \ {x} \notin D /\ T \ {x} \subseteq S /\ y \in T \ {x}
  BY <1>3, <1>4, <1>5, <1>6, <1>7
<1>9. SumOf(k, T \ {y}) = k[x] + SumOf(k, (T \ {y}) \ {x})
  BY <1>8 DEF D
<1>10. SumOf(k, T \ {x}) = k[y] + SumOf(k, (T \ {x}) \ {y})
  BY <1>8 DEF D
<1>11. (T \ {y}) \ {x} = (T \ {x}) \ {y}
  OBVIOUS
<1> DEFINE r == (T \ {x}) \ {y}
<1>12. SumOf(k, r) \in Nat /\ k[x] \in Nat /\ k[y] \in Nat
  BY <1>5, SumIsNat
<1>13. SumOf(k, T) = k[y] + (k[x] + SumOf(k, r)) /\ SumOf(k, T \ {x}) = k[y] + SumOf(k, r)
  BY <1>6, <1>9, <1>10, <1>11
<1> HIDE DEF r
<1> QED BY <1>4, <1>12, <1>13

(* A sum of natural numbers grows with the set.                            *)
LEMMA SumGrows ==
  ASSUME NEW S, IsFiniteSet(S), NEW k, \A x \in S : k[x] \in Nat, NEW W \in SUBSET S
  PROVE  SumOf(k, W) <= SumOf(k, S)
<1> DEFINE D == {T \in SUBSET S : W \subseteq T /\ ~(SumOf(k, W) <= SumOf(k, T))}
<1>1. SUFFICES ASSUME D # {} PROVE FALSE
  OBVIOUS
<1>2. D \in SUBSET (SUBSET S)
  OBVIOUS
<1> HIDE DEF D
<1>3. PICK T \in D : \A c \in D : c \subseteq T => c = T
  BY <1>1, <1>2, Smallest
<1>4. T \subseteq S /\ W \subseteq T /\ ~(SumOf(k, W) <= SumOf(k, T))
  BY DEF D
<1>5. SumOf(k, W) \in Nat /\ SumOf(k, T) \in Nat
  BY <1>4, SumIsNat
<1>6. PICK x \in T : x \notin W
  BY <1>4, <1>5
<1>7. T \ {x} \notin D /\ T \ {x} \subseteq S /\ W \subseteq T \ {x}
  BY <1>3, <1>4, <1>6
<1>8. SumOf(k, W) <= SumOf(k, T \ {x})
  BY <1>7 DEF D
<1>9. SumOf(k, T) = k[x] + SumOf(k, T \ {x}) /\ k[x] \in Nat /\ SumOf(k, T \ {x}) \in Nat
  BY <1>4, <1>7, SumOfOne, SumIsNat
<1> QED BY <1>4, <1>5, <1>8, <1>9

(* And depends on nothing but the elements.                                *)
LEMMA SumsSame ==
  ASSUME NEW S, IsFiniteSet(S), NEW k, NEW h, \A x \in S : k[x] = h[x]
  PROVE  SumOf(k, S) = SumOf(h, S)
<1> DEFINE D == {T \in SUBSET S : SumOf(k, T) # SumOf(h, T)}
<1>1. SUFFICES ASSUME D # {} PROVE FALSE
  OBVIOUS
<1>2. D \in SUBSET (SUBSET S)
  OBVIOUS
<1> HIDE DEF D
<1>3. PICK T \in D : \A c \in D : c \subseteq T => c = T
  BY <1>1, <1>2, Smallest
<1>4. T \subseteq S /\ SumOf(k, T) # SumOf(h, T) /\ IsFiniteSet(T)
  BY FS_Subset DEF D
<1>5. SumOf(k, T) = IF T = {} THEN 0 ELSE k[FirstOf(T)] + SumOf(k, T \ {FirstOf(T)})
  BY <1>4, SumIs
<1>6. SumOf(h, T) = IF T = {} THEN 0 ELSE h[FirstOf(T)] + SumOf(h, T \ {FirstOf(T)})
  BY <1>4, SumIs
<1>7. T # {}
  BY <1>4, <1>5, <1>6
<1>8. FirstOf(T) \in T
  BY <1>7, FirstIsIn
<1>9. T \ {FirstOf(T)} \notin D /\ T \ {FirstOf(T)} \subseteq S
  BY <1>3, <1>4, <1>8
<1>10. SumOf(k, T \ {FirstOf(T)}) = SumOf(h, T \ {FirstOf(T)}) /\ k[FirstOf(T)] = h[FirstOf(T)]
  BY <1>4, <1>8, <1>9 DEF D
<1> QED BY <1>4, <1>5, <1>6, <1>7, <1>10

(* The folds of the model are these sums.                                  *)
LEMMA FoldIsSum ==
  ASSUME NEW k, NEW S
  PROVE  MapThenSumSet(LAMBDA f : k[f], S) = SumOf(k, S)
BY DEF MapThenSumSet, MapThenFoldSet, SumOf, SumsOf, IsSum, FirstOf
-----------------------------------------------------------------------------
(* What is served for writing.  A quota the kernel enforces is that of the *)
(* folder; whatever configuration Samba has, is about to get or may get    *)
(* back calls only those folders writable that can be written safely by    *)
(* the tables and the kernel as they are now, unless it was written late.  *)
OnlyWritable(s) == s # None => \A e \in s : e.w => Writable(e.f)
ConfigsAreSafe ==
  /\ OnlyWritable(conf)
  /\ op.at \in {"write", "test"} => OnlyWritable(op.model)
  /\ op.at = "test" => OnlyWritable(op.old)
QuotasFit ==
  /\ \A f \in Existing : folder[f].hard > 0 => folder[f].quota = folder[f].hard
  /\ ~astray => ConfigsAreSafe

(* How a step goes on with the configurations.                             *)
Quiet == op'.at \notin {"write", "test"} /\ (conf' = conf \/ conf' = {} \/ conf' = None)

LEMMA IdleIsQuiet ==
  ASSUME op' = Idle, conf' = conf \/ conf' = {} \/ conf' = None
  PROVE  Quiet
BY DEF Quiet, Idle, Work

LEMMA GoingOnIsQuiet ==
  ASSUME SharesInv, NEW at, GoOn(at), at \notin {"write", "test"}, UNCHANGED conf
  PROVE  Quiet
BY GoesOn DEF Goes, OpIs, Quiet

LEMMA ChangesAreQuiet ==
  ASSUME SharesInv, Change
  PROVE  Quiet /\ UNCHANGED conf /\ op.at \in Changing
<1>1. CASE CreateRefused \/ UndoFolder
  BY <1>1, IdleIsQuiet DEF CreateRefused, UndoFolder, EndWith, Doing, Changing, samba
<1>2. CASE ~(CreateRefused \/ UndoFolder)
  <2>1. /\ UNCHANGED conf /\ op.at \in Changing
        /\ GoOn("build") \/ GoOn("mkdir") \/ GoOn("commit")
    BY <1>2 DEF Change, SetUserAccess, SetUserAccessOf, CreateNASFolder, PrepareFolder, RemoveDirectory,
       DeleteNASFolder, RemakeDirectory, SetKernelQuota, UpdateNASFolderManagement, UpdateManagementOf,
       SetNASUserQuota, Reconcile, Doing, Changing, samba
  <2> QED BY <2>1, GoingOnIsQuiet
<1> QED BY <1>1, <1>2

LEMMA BeginIsQuiet ==
  ASSUME NEW r, NEW at \in {"stop", "build"}, NEW active, op' = Work(r, at, active), UNCHANGED conf
  PROVE  Quiet
BY DEF Work, Quiet

LEMMA FailuresAreQuiet ==
  ASSUME SharesInv, Failure
  PROVE  Quiet \/ UNCHANGED <<op, conf>> \/ TestFails \/ astray'
<1>1. ASSUME Fail, UNCHANGED conf PROVE Quiet
  <2>1. CASE After(op.at) = "end"
    BY <1>1, <2>1, IdleIsQuiet DEF Fail, EndWith
  <2>2. CASE After(op.at) # "end"
    <3>1. After(op.at) \in {"build", "undo", "remake"} /\ op' = [op EXCEPT !.at = After(op.at)]
      BY <1>1, <2>2 DEF Fail, After
    <3>2. op'.at = After(op.at)
      BY <3>1 DEF SharesInv, WorkFits
    <3> QED BY <1>1, <3>1, <3>2 DEF Quiet
  <2> QED BY <2>1, <2>2
<1>2. CASE CallFails \/ PrepareUnheard
  BY <1>1, <1>2 DEF CallFails, PrepareUnheard, samba
<1>3. CASE SuspendUnheard \/ CallAbandoned \/ CoreDies \/ Reboot
  BY <1>3, IdleIsQuiet DEF SuspendUnheard, CallAbandoned, CoreDies, Reboot, EndWith, Suspended, samba
<1>4. CASE HelperDies
  <2>1. conf' = {} \/ conf' = None
    BY <1>4 DEF HelperDies, Suspended
  <2>2. CASE InHelper
    BY <1>4, <2>1, <2>2, IdleIsQuiet DEF HelperDies, EndWith
  <2>3. CASE ~InHelper
    BY <1>4, <2>1, <2>3 DEF HelperDies, InHelper, Quiet
  <2> QED BY <2>2, <2>3
<1>5. CASE LateStep \/ LateFails
  BY <1>5 DEF LateStep, LateFails
<1> QED BY <1>2, <1>3, <1>4, <1>5 DEF Failure

(* What came late is forgotten when the configuration is emptied.          *)
LEMMA AstrayEnds ==
  ASSUME [SharesNext]_shareVars
  PROVE  astray' = astray \/ astray' = TRUE \/ EmptyConfig
<1>1. CASE Step
  <2>1. CASE Change
    BY <2>1 DEF Change, SetUserAccess, SetUserAccessOf, CreateNASFolder, CreateRefused, PrepareFolder,
       UndoFolder, RemoveDirectory, DeleteNASFolder, RemakeDirectory, SetKernelQuota,
       UpdateNASFolderManagement, UpdateManagementOf, SetNASUserQuota, Reconcile, samba
  <2> QED BY <1>1, <2>1 DEF Step, StopSamba, BuildModel, WriteConfig, ReloadSamba, samba
<1>2. CASE Request
  BY <1>2 DEF Request, Ask, CreateUserWithAccess, InstallSamba, samba
<1>3. CASE Failure
  BY <1>3 DEF Failure, CallFails, SuspendUnheard, PrepareUnheard, TestFails, CallAbandoned, LateStep,
     LateFails, CoreDies, HelperDies, Reboot, samba
<1>4. CASE TryReconcile \/ \E r \in waiting : Admit(r)
  BY <1>4 DEF TryReconcile, Admit, samba
<1>5. CASE UNCHANGED shareVars
  BY <1>5 DEF shareVars, samba
<1> QED BY <1>1, <1>2, <1>3, <1>4, <1>5 DEF SharesNext

(* Only these steps make or change a configuration for writing.            *)
LEMMA StepsOfSamba ==
  ASSUME SharesInv, [SharesNext]_shareVars
  PROVE  Quiet \/ UNCHANGED <<op, conf>> \/ TestFails \/ astray' \/ WriteConfig
         \/ (op'.at = "write" /\ op'.model = Shared /\ UNCHANGED conf)
<1>1. CASE StopSamba
  <2>1. /\ \/ op' = [op EXCEPT !.at = "work", !.active = FALSE]
           \/ op' = [op EXCEPT !.at = "empty", !.active = TRUE]
        /\ UNCHANGED conf
    BY <1>1 DEF StopSamba
  <2>2. op'.at \in {"work", "empty"}
    BY <2>1, OpBecomes DEF SharesInv, OpIs
  <2> QED BY <2>1, <2>2 DEF Quiet
<1>2. CASE EmptyConfig
  <2>1. conf' = {} /\ GoOn("work")
    BY <1>2 DEF EmptyConfig
  <2> QED BY <2>1, GoesOn DEF Goes, OpIs, Quiet
<1>3. CASE BuildModel
  <2>1. UNCHANGED conf
    BY <1>3 DEF BuildModel, samba
  <2>2. op' = Idle \/ op' = [op EXCEPT !.at = "write", !.model = Shared]
    BY <1>3 DEF BuildModel, End, EndWith
  <2>3. op' = [op EXCEPT !.at = "write", !.model = Shared] => op'.at = "write" /\ op'.model = Shared
    BY OpBecomes DEF SharesInv, OpIs
  <2> QED BY <2>1, <2>2, <2>3, IdleIsQuiet
<1>4. CASE ReloadSamba
  BY <1>4, IdleIsQuiet DEF ReloadSamba, End, EndWith
<1>5. CASE TryReconcile
  BY <1>5, BeginIsQuiet DEF TryReconcile, samba
<1>6. CASE \E r \in waiting : Admit(r)
  <2>1. PICK r \in waiting : Admit(r)
    BY <1>6
  <2>2. UNCHANGED conf /\ (UNCHANGED op \/ op' = Work(r, First(r), r.do = "apply"))
    BY <2>1 DEF Admit, Begin, samba
  <2>3. First(r) \in {"stop", "build"}
    BY DEF First
  <2> QED BY <2>2, <2>3, BeginIsQuiet
<1>7. CASE Request
  BY <1>7 DEF Request, Ask, CreateUserWithAccess, InstallSamba, samba
<1>8. CASE UNCHANGED shareVars
  BY <1>8 DEF shareVars, samba
<1> QED BY <1>1, <1>2, <1>3, <1>4, <1>5, <1>6, <1>7, <1>8, ChangesAreQuiet, FailuresAreQuiet
    DEF SharesNext, Step

(* Whether a folder can be written depends on three tables.                *)
LEMMA WritableStays ==
  ASSUME UNCHANGED <<folder, cap, kernel>>
  PROVE  \A f : Writable(f)' = Writable(f)
<1>1. (\A u : OwnedBy(u)' = OwnedBy(u)) /\ (\A f : Verified(f)' = Verified(f))
  BY DEF OwnedBy, Existing, Verified
<1>2. \A u : Budget(u)' = Budget(u)
  BY <1>1 DEF Budget
<1>3. \A u : PersonallySafe(u)' = PersonallySafe(u)
  BY <1>1, <1>2 DEF PersonallySafe
<1> QED BY <1>1, <1>3 DEF Writable

LEMMA StepsOfQuotas ==
  ASSUME [SharesNext]_shareVars
  PROVE  UNCHANGED <<folder, cap, kernel>> \/ Change
<1>1. CASE Step
  BY <1>1 DEF Step, StopSamba, EmptyConfig, BuildModel, WriteConfig, ReloadSamba, tables, disk
<1>2. CASE Request
  BY <1>2 DEF Request, Ask, CreateUserWithAccess, InstallSamba, tables, disk
<1>3. CASE Failure
  BY <1>3 DEF Failure, CallFails, SuspendUnheard, PrepareUnheard, TestFails, CallAbandoned, LateStep,
     LateFails, CoreDies, HelperDies, Reboot, tables, disk
<1>4. CASE TryReconcile \/ \E r \in waiting : Admit(r)
  BY <1>4 DEF TryReconcile, Admit, tables, disk
<1>5. CASE UNCHANGED shareVars
  BY <1>5 DEF shareVars, tables, disk
<1> QED BY <1>1, <1>2, <1>3, <1>4, <1>5 DEF SharesNext

(* The limit a folder has in the tables is its quota, or there is none.    *)
LEMMA LimitsKeep ==
  ASSUME SharesInv, QuotasFit, Change
  PROVE  (\A f \in Existing : folder[f].hard > 0 => folder[f].quota = folder[f].hard)'
<1>1. CASE UNCHANGED folder
  BY <1>1 DEF QuotasFit, Existing
<1>2. CASE CreateNASFolder
  <2> DEFINE x == op.ask.f
             row == [owner |-> op.ask.owner, quota |-> 0, hard |-> 0]
  <2>1. folder' = [folder EXCEPT ![x] = row] /\ row.hard = 0
    BY <1>2 DEF CreateNASFolder
  <2> HIDE DEF x, row
  <2> QED BY <2>1 DEF QuotasFit, Existing, SharesInv, TablesFit
<1>3. CASE UndoFolder \/ DeleteNASFolder
  <2> DEFINE x == op.ask.f
  <2>1. folder' = [folder EXCEPT ![x] = None]
    BY <1>3 DEF UndoFolder, DeleteNASFolder, WithoutFolder
  <2> HIDE DEF x
  <2> QED BY <2>1 DEF QuotasFit, Existing, SharesInv, TablesFit
<1>4. CASE UpdateNASFolderManagement
  <2> DEFINE x == op.ask.f
             q == op.ask.quota
             h == Hard
  <2>1. folder' = [folder EXCEPT ![x].quota = q, ![x].hard = h] /\ (h = q \/ h = 0)
    BY <1>4 DEF UpdateNASFolderManagement, UpdateManagementOf, Hard
  <2>2. x \in Existing /\ folder[x] \in FolderRow
    BY <1>4 DEF UpdateNASFolderManagement, UpdateManagementOf, Doing, SharesInv, WorkFits, TablesFit, Existing
  <2> SUFFICES ASSUME NEW f \in Existing', folder'[f].hard > 0
               PROVE  folder'[f].quota = folder'[f].hard
    OBVIOUS
  <2>3. f \in Folders
    BY DEF Existing
  <2>4. CASE f = x
    <3>1. folder'[f].quota = q /\ folder'[f].hard = h
      BY <2>1, <2>2, <2>3, <2>4 DEF SharesInv, TablesFit, FolderRow
    <3> QED BY <2>1, <3>1
  <2>5. CASE f # x
    <3>1. folder'[f] = folder[f] /\ f \in Existing
      BY <2>1, <2>3, <2>5 DEF SharesInv, TablesFit, Existing
    <3> QED BY <3>1 DEF QuotasFit
  <2> QED BY <2>4, <2>5
<1> QED BY <1>1, <1>2, <1>3, <1>4 DEF Change, SetUserAccess, SetUserAccessOf, CreateRefused, PrepareFolder,
       RemoveDirectory, RemakeDirectory, SetKernelQuota, SetNASUserQuota, Reconcile, tables

LEMMA QuotasBegin == SharesInit => QuotasFit
<1> SUFFICES ASSUME SharesInit PROVE QuotasFit
  OBVIOUS
<1>1. op.at = "idle" /\ conf \in {None, Shared}
  BY DEF SharesInit, Idle, Work
<1>2. OnlyWritable(conf)
  <2> SUFFICES ASSUME conf # None, NEW e \in conf, e.w PROVE Writable(e.f)
    BY DEF OnlyWritable
  <2>1. PICK f \in Existing, u \in Users :
          MayReach(f, u) /\ e = [f |-> f, u |-> u, w |-> Writable(f)]
    BY <1>1, SharedIs
  <2> QED BY <2>1
<1>3. PICK absent \in SUBSET Latecomers, admins \in SUBSET Users, hard \in 0..MaxQuota :
        SetUp(absent, admins, hard, {f \in DOMAIN HomeOf : HomeOf[f] \notin absent})
  BY DEF SharesInit
<1>4. \A f \in Existing : folder[f].hard = folder[f].quota
  BY <1>3 DEF SetUp, Existing
<1> QED BY <1>1, <1>2, <1>4 DEF QuotasFit, ConfigsAreSafe

(* The tables and the kernel stay.                                         *)
LEMMA ConfigsStaySafe ==
  ASSUME SharesInv, [SharesNext]_shareVars, UNCHANGED <<folder, cap, kernel>>, ConfigsAreSafe, ~astray'
  PROVE  ConfigsAreSafe'
<1>1. \A f : Writable(f)' = Writable(f)
  BY WritableStays
<1>2. OnlyWritable(conf) /\ (op.at \in {"write", "test"} => OnlyWritable(op.model))
      /\ (op.at = "test" => OnlyWritable(op.old))
  BY DEF ConfigsAreSafe
<1>3. CASE Quiet
  <2>1. OnlyWritable(conf)'
    BY <1>1, <1>2, <1>3 DEF Quiet, OnlyWritable
  <2> QED BY <1>3, <2>1 DEF ConfigsAreSafe, Quiet
<1>4. CASE UNCHANGED <<op, conf>>
  BY <1>1, <1>2, <1>4 DEF ConfigsAreSafe, OnlyWritable
<1>5. CASE TestFails
  <2>1. op.at = "test" /\ conf' = op.old /\ op' = Idle
    BY <1>5 DEF TestFails, EndWith
  <2>2. op'.at = "idle"
    BY <2>1 DEF Idle, Work
  <2>3. OnlyWritable(conf)'
    BY <1>1, <1>2, <2>1 DEF OnlyWritable
  <2> QED BY <2>2, <2>3 DEF ConfigsAreSafe
<1>6. CASE WriteConfig
  <2>1. op.at = "write" /\ conf' = op.model /\ op' = [op EXCEPT !.at = "test", !.old = conf]
    BY <1>6 DEF WriteConfig
  <2>2. OpIs("test", op.active, op.model, conf)
    BY <2>1, OpBecomes DEF SharesInv
  <2>3. op'.at = "test" /\ op'.model = op.model /\ op'.old = conf
    BY <2>2 DEF OpIs
  <2>4. OnlyWritable(conf)' /\ OnlyWritable(op.model)' /\ OnlyWritable(op.old)'
    BY <1>1, <1>2, <2>1, <2>3 DEF OnlyWritable
  <2> QED BY <2>4 DEF ConfigsAreSafe
<1>7. CASE op'.at = "write" /\ op'.model = Shared /\ UNCHANGED conf
  <2>1. \A e \in Shared : e.w => Writable(e.f)
    <3> SUFFICES ASSUME NEW e \in Shared, e.w PROVE Writable(e.f)
      OBVIOUS
    <3>1. PICK f \in Existing, u \in Users :
            MayReach(f, u) /\ e = [f |-> f, u |-> u, w |-> Writable(f)]
      BY SharedIs
    <3> QED BY <3>1
  <2>2. OnlyWritable(conf)' /\ OnlyWritable(op.model)'
    BY <1>1, <1>2, <1>7, <2>1 DEF OnlyWritable
  <2> QED BY <1>7, <2>2 DEF ConfigsAreSafe
<1> QED BY <1>3, <1>4, <1>5, <1>6, <1>7, StepsOfSamba

LEMMA QuotasGoOn == SharesInv /\ QuotasFit /\ [SharesNext]_shareVars => QuotasFit'
<1> SUFFICES ASSUME SharesInv, QuotasFit, [SharesNext]_shareVars PROVE QuotasFit'
  OBVIOUS
<1>1. CASE Change
  <2>1. Quiet /\ UNCHANGED conf /\ op.at \in Changing /\ (astray' = astray \/ astray')
    <3>1. ~EmptyConfig
      BY <1>1, ChangesAreQuiet DEF EmptyConfig, Changing
    <3> QED BY <1>1, <3>1, ChangesAreQuiet, AstrayEnds
  <2>2. astray' \/ conf' = None \/ conf' = {}
    BY <2>1 DEF SharesInv, NothingServed
  <2>3. ~astray' => OnlyWritable(conf)'
    BY <2>2 DEF OnlyWritable
  <2>4. ~astray' => ConfigsAreSafe'
    BY <2>1, <2>3 DEF ConfigsAreSafe, Quiet
  <2> QED BY <1>1, <2>4, LimitsKeep DEF QuotasFit
<1>2. CASE UNCHANGED <<folder, cap, kernel>>
  <2>1. (\A f \in Existing : folder[f].hard > 0 => folder[f].quota = folder[f].hard)'
    BY <1>2 DEF QuotasFit, Existing
  <2>2. CASE EmptyConfig
    <3>1. conf' = {} /\ op'.at = "work"
      BY <2>2, GoesOn DEF EmptyConfig, Goes, OpIs
    <3>2. ConfigsAreSafe'
      BY <3>1 DEF ConfigsAreSafe, OnlyWritable
    <3> QED BY <2>1, <3>2 DEF QuotasFit
  <2>3. CASE ~EmptyConfig
    <3>1. ~astray' => ConfigsAreSafe'
      BY <1>2, <2>3, AstrayEnds, ConfigsStaySafe DEF QuotasFit
    <3> QED BY <2>1, <3>1 DEF QuotasFit
  <2> QED BY <2>2, <2>3
<1> QED BY <1>1, <1>2, StepsOfQuotas

(* The limits in the tables, summed up, as a sum of numbers.               *)
IsTotal(g, rows, S) ==
  g = [s \in SUBSET S |-> IF s = {} THEN 0
                          ELSE rows[FirstOf(s)].hard + g[s \ {FirstOf(s)}]]
TotalsOf(rows, S) == CHOOSE g : IsTotal(g, rows, S)

LEMMA TotalIsSum ==
  ASSUME NEW rows, NEW S \in SUBSET Folders, IsFiniteSet(S)
  PROVE  Total(rows, S) = SumOf([f \in Folders |-> rows[f].hard], S)
<1> DEFINE k == [f \in Folders |-> rows[f].hard]
<1>1. \A s \in SUBSET S : s # {} => FirstOf(s) \in s /\ k[FirstOf(s)] = rows[FirstOf(s)].hard
  BY FirstIsIn
<1> HIDE DEF k
<1>2. ASSUME NEW g PROVE IsSum(g, k, S) <=> IsTotal(g, rows, S)
  <2> DEFINE a == [s \in SUBSET S |-> IF s = {} THEN 0 ELSE k[FirstOf(s)] + g[s \ {FirstOf(s)}]]
             b == [s \in SUBSET S |-> IF s = {} THEN 0 ELSE rows[FirstOf(s)].hard + g[s \ {FirstOf(s)}]]
  <2>1. \A s \in SUBSET S : (IF s = {} THEN 0 ELSE k[FirstOf(s)] + g[s \ {FirstOf(s)}])
            = (IF s = {} THEN 0 ELSE rows[FirstOf(s)].hard + g[s \ {FirstOf(s)}])
    BY <1>1
  <2>2. a = b
    BY <2>1
  <2> QED BY <2>2 DEF IsSum, IsTotal
<1>3. IsSum(SumsOf(k, S), k, S)
  BY SumsExist
<1>4. IsTotal(TotalsOf(rows, S), rows, S)
  BY <1>2, <1>3 DEF TotalsOf
<1>5. IsSum(TotalsOf(rows, S), k, S)
  BY <1>2, <1>4
<1>6. \A s \in SUBSET (S \cap S) : TotalsOf(rows, S)[s] = SumsOf(k, S)[s]
  BY <1>3, <1>5, SumsAgree
<1>7. TotalsOf(rows, S)[S] = SumOf(k, S)
  BY <1>6 DEF SumOf
<1>8. Total(rows, S) = TotalsOf(rows, S)[S]
  BY DEF Total, MapThenSumSet, MapThenFoldSet, TotalsOf, IsTotal, FirstOf
<1> QED BY <1>7, <1>8 DEF k

(* What can be written is limited.                                         *)
LEMMA LimitsHold ==
  ASSUME SharesInv, QuotasFit
  PROVE  QuotaIsEnforced
<1> SUFFICES ASSUME ~astray PROVE QuotaIsEnforced
  BY DEF QuotaIsEnforced
<1>1. \A f \in Existing : folder[f].hard \in Nat /\ folder[f].quota \in Nat
  BY SharesAssumption DEF SharesInv, TablesFit, Existing, FolderRow
<1>2. \A f \in Folders : kernel[f] \in Nat
  BY SharesAssumption DEF SharesInv, TablesFit
<1>3. \A u \in Users : cap[u] \in Nat
  BY SharesAssumption DEF SharesInv, TablesFit
<1>4. \A e \in Served : e.f \in Existing /\ (e.w => Writable(e.f))
  BY DEF SharesInv, ServedFits, Granted, Served, QuotasFit, ConfigsAreSafe, OnlyWritable
<1>5. ASSUME NEW e \in Served, e.w, folder[e.f].quota > 0
      PROVE  kernel[e.f] = folder[e.f].quota
  <2>1. e.f \in Existing /\ Writable(e.f)
    BY <1>4, <1>5
  <2>2. folder[e.f].hard # 0 /\ Verified(e.f)
    BY <1>1, <1>5, <2>1 DEF Writable
  <2> QED BY <2>1, <2>2 DEF Verified, QuotasFit
<1>6. ASSUME NEW u \in Users, cap[u] > 0, WrittenBy(u) # {}
      PROVE  /\ \A f \in WrittenBy(u) : kernel[f] > 0
             /\ MapThenSumSet(LAMBDA f : kernel[f], WrittenBy(u)) <= cap[u]
  <2> DEFINE W == WrittenBy(u)
             O == OwnedBy(u)
             k == [f \in Folders |-> folder[f].hard]
  <2>1. W \subseteq O /\ O \subseteq Existing /\ O \subseteq Folders
    BY DEF WrittenBy, OwnedBy, Existing
  <2>2. IsFiniteSet(O) /\ IsFiniteSet(W)
    BY <2>1, FS_Subset, SharesAssumption
  <2>3. \A f \in W : Writable(f) /\ folder[f].owner = u /\ u # None
    BY <1>4, SharesAssumption DEF WrittenBy, OwnedBy
  <2>4. ASSUME NEW f \in W PROVE Verified(f) /\ PersonallySafe(u)
    <3>1. folder[f].hard # 0
      BY <1>6, <2>3, <2>4 DEF Writable
    <3> QED BY <2>3, <2>4, <3>1 DEF Writable
  <2>5. (\A f \in O : Verified(f)) /\ Budget(u) <= cap[u]
    BY <1>6, <2>4 DEF PersonallySafe
  <2>6. \A f \in O : kernel[f] = k[f] /\ kernel[f] > 0 /\ kernel[f] \in Nat
    BY <1>2, <2>1, <2>5 DEF Verified
  <2>7. Budget(u) = SumOf(k, O)
    BY <2>1, <2>2, TotalIsSum DEF Budget
  <2> HIDE DEF W, O, k
  <2>8. SumOf(kernel, O) = SumOf(k, O)
    BY <2>2, <2>6, SumsSame
  <2>9. SumOf(kernel, W) <= SumOf(kernel, O)
    BY <2>1, <2>2, <2>6, SumGrows
  <2>10. SumOf(kernel, W) \in Nat /\ SumOf(kernel, O) \in Nat
    BY <2>1, <2>2, <2>6, SumIsNat
  <2>11. MapThenSumSet(LAMBDA f : kernel[f], W) = SumOf(kernel, W)
    BY FoldIsSum
  <2>12. SumOf(kernel, W) <= cap[u]
    BY <1>3, <2>5, <2>7, <2>8, <2>9, <2>10
  <2>13. \A f \in W : kernel[f] > 0
    BY <2>1, <2>6
  <2> QED BY <2>11, <2>12, <2>13 DEF W
<1> QED BY <1>5, <1>6 DEF QuotaIsEnforced

(* What can be written over Samba is limited by the kernel: to the quota   *)
(* of the folder, and all folders of a user together to the user's own     *)
(* quota, in every step of every change of either and whichever call fails *)
(* between the table and the kernel; but for a configuration written late  *)
(* by a call Core gave up on, until Samba is suspended again.              *)
(* smbWritableFolders                                                      *)
THEOREM QuotasHold == SharesSpec => []QuotaIsEnforced
<1>1. SharesSpec => []QuotasFit
  BY QuotasBegin, QuotasGoOn, SharesKept, PTL DEF SharesSpec
<1> QED BY <1>1, LimitsHold, SharesKept, PTL

-----------------------------------------------------------------------------
(* Accounts and sessions.                                                  *)
(* The users table; a count of disablings is a count of requests.          *)
UsersFit ==
  /\ account \in [Accounts -> {Nobody} \cup UserRecord]
  /\ \A a \in Present : account[a].disablings <= orders
  /\ chosen \in 0..MaxPasswords /\ orders \in 0..MaxOrders /\ setup \in BOOLEAN

(* A session that was not revoked, in use or not, was opened with the      *)
(* password and in the period its user has now: what replaces or ends      *)
(* either revokes the sessions in the same transaction.                    *)
SessionFits(s) ==
  session[s] # Nobody =>
    /\ session[s].user \in Present
    /\ ~session[s].revoked =>
         /\ session[s].by = account[session[s].user].hash \/ session[s].late
         /\ session[s].disablings = account[session[s].user].disablings
SessionsFit ==
  /\ session \in [Sessions -> {Nobody} \cup SessionRecord] /\ held \subseteq Sessions
  /\ \A s \in Sessions : SessionFits(s)

(* What a request has read.                                                *)
TaskFits(c) ==
  /\ task[c].at \in {"none", "insert", "session", "answer", "commit"}
  /\ task[c].at = "insert" => task[c].name \in Names
  /\ task[c].at \in {"session", "commit"} => /\ task[c].a \in Present
                                             /\ task[c].old \in 1..MaxPasswords
  /\ task[c].at = "answer" => task[c].s \in Sessions
TasksFit == DOMAIN task = Clients /\ \A c \in Clients : TaskFits(c)

(* The founder is there to be seen by the next one who tries.              *)
Founder ==
  /\ founded \subseteq Accounts
  /\ founded = {} \/ \E a \in Present : founded = {a}

(* The inductive invariant.                                                *)
AccountsInv == UsersFit /\ SessionsFit /\ TasksFit /\ Founder

-----------------------------------------------------------------------------
(* A row is not the mark of a missing one.                                 *)
LEMMA RowsAreRows ==
  /\ \A r \in UserRecord : r # Nobody
  /\ \A r \in SessionRecord : r # Nobody
BY AccountsAssumption

(* Revoking the sessions of a user changes nothing else of them.           *)
LEMMA RevokedIs ==
  ASSUME SessionsFit, NEW a \in Accounts, session' = Revoked(a, session)
  PROVE  /\ session' \in [Sessions -> {Nobody} \cup SessionRecord]
         /\ \A s \in Sessions :
              /\ session[s] = Nobody => session'[s] = Nobody
              /\ session[s] # Nobody =>
                   /\ session'[s] # Nobody /\ session'[s].user = session[s].user
                   /\ session[s].user = a => session'[s].revoked
                   /\ session[s].user # a => session'[s] = session[s]
<1>1. ASSUME NEW s \in Sessions, session[s] # Nobody
      PROVE  /\ [session[s] EXCEPT !.revoked = TRUE] \in SessionRecord
             /\ [session[s] EXCEPT !.revoked = TRUE].user = session[s].user
             /\ [session[s] EXCEPT !.revoked = TRUE].revoked
  BY <1>1 DEF SessionsFit, SessionRecord
<1>2. ASSUME NEW s \in Sessions
      PROVE  session'[s] = IF session[s] # Nobody /\ session[s].user = a
                           THEN [session[s] EXCEPT !.revoked = TRUE] ELSE session[s]
  BY DEF Revoked
<1>3. \A s \in Sessions : session'[s] \in {Nobody} \cup SessionRecord
  BY <1>1, <1>2 DEF SessionsFit
<1>4. session' \in [Sessions -> {Nobody} \cup SessionRecord]
  BY <1>3 DEF Revoked
<1>5. ASSUME NEW s \in Sessions
      PROVE  /\ session[s] = Nobody => session'[s] = Nobody
             /\ session[s] # Nobody =>
                  /\ session'[s] # Nobody /\ session'[s].user = session[s].user
                  /\ session[s].user = a => session'[s].revoked
                  /\ session[s].user # a => session'[s] = session[s]
  BY <1>1, <1>2, RowsAreRows
<1> QED BY <1>4, <1>5

(* Users stay, and keep their passwords and their disablings.              *)
UsersStay ==
  \A a \in Present : /\ a \in Present' /\ account'[a].hash = account[a].hash
                     /\ account'[a].disablings = account[a].disablings

(* A session that stays fits as long as its user does.                     *)
LEMMA SessionStays ==
  ASSUME NEW s \in Sessions, SessionFits(s), session'[s] = session[s], UsersStay
  PROVE  SessionFits(s)'
BY DEF SessionFits, UsersStay

(* So does a request that stays.                                           *)
LEMMA TasksStay ==
  ASSUME TasksFit, \A a \in Present : a \in Present', DOMAIN task' = Clients,
         \A c \in Clients : task'[c] = task[c] \/ task'[c] = Free
  PROVE  TasksFit'
<1>1. ASSUME NEW c \in Clients PROVE TaskFits(c)'
  <2>1. CASE task'[c] = task[c]
    <3>1. TaskFits(c)
      BY DEF TasksFit
    <3> QED BY <2>1, <3>1 DEF TaskFits
  <2>2. CASE task'[c] = Free
    <3>1. task'[c].at = "none"
      BY <2>2 DEF Free
    <3> QED BY <3>1 DEF TaskFits
  <2> QED BY <2>1, <2>2
<1> QED BY <1>1 DEF TasksFit

(* And the founder.                                                        *)
LEMMA FounderStays ==
  ASSUME Founder, \A a \in Present : a \in Present', founded' = founded
  PROVE  Founder'
BY DEF Founder

(* The user of a usable session is there.                                  *)
LEMMA ActorsArePresent ==
  ASSUME SessionsFit
  PROVE  Actors \subseteq Present
BY DEF SessionsFit, SessionFits, Actors, Usable

(* A request begins with what fits.                                        *)
LEMMA StartKeeps ==
  ASSUME AccountsInv, NEW c \in Clients,
         \/ \E n \in Names : Bootstrap(c, n)
         \/ \E a \in Accounts : Login(c, a) \/ ChangePassword(c, a)
                                \/ \E by \in Accounts : ResetPassword(c, by, a)
  PROVE  AccountsInv'
<1>1. /\ orders < MaxOrders /\ orders' = orders + 1
      /\ UNCHANGED <<account, session, held, setup, founded, chosen, failures>>
      /\ DOMAIN task' = Clients /\ \A d \in Clients \ {c} : task'[d] = task[d]
  BY DEF Bootstrap, Login, ChangePassword, ResetPassword, Intend, Start, AccountsInv, TasksFit
<1>2. /\ task'[c].at \in {"insert", "session", "commit"}
      /\ task'[c].at = "insert" => task'[c].name \in Names
      /\ task'[c].at # "insert" => task'[c].a \in Present /\ task'[c].old = account[task'[c].a].hash
  <2>1. CASE \E n \in Names : Bootstrap(c, n)
    BY <2>1 DEF Bootstrap, Start, AccountsInv, TasksFit
  <2>2. CASE \E a \in Accounts : Login(c, a)
    BY <2>2 DEF Login, Start, AccountsInv, TasksFit
  <2>3. CASE \E a \in Accounts : ChangePassword(c, a) \/ \E by \in Accounts : ResetPassword(c, by, a)
    <3>1. PICK a \in Present : Intend(c, "change", a) \/ Intend(c, "reset", a)
      BY <2>3, ActorsArePresent DEF ChangePassword, ResetPassword, AccountsInv
    <3> QED BY <3>1 DEF Intend, Start, AccountsInv, TasksFit
  <2> QED BY <2>1, <2>2, <2>3
<1>3. \A a \in Present : account[a].hash \in 1..MaxPasswords
  BY DEF AccountsInv, UsersFit, Present, UserRecord
<1>4. Present' = Present /\ UsersStay
  BY <1>1 DEF Present, UsersStay
<1>5. UsersFit'
  BY <1>1, <1>4, AccountsAssumption DEF AccountsInv, UsersFit, UserRecord, Present
<1>6. SessionsFit'
  BY <1>1, <1>4, SessionStays DEF AccountsInv, SessionsFit
<1>7. TaskFits(c)'
  BY <1>2, <1>3, <1>4 DEF TaskFits
<1>8. ASSUME NEW d \in Clients \ {c} PROVE TaskFits(d)'
  BY <1>1, <1>4 DEF AccountsInv, TasksFit, TaskFits
<1>9. TasksFit'
  BY <1>1, <1>7, <1>8 DEF TasksFit
<1> QED BY <1>1, <1>4, <1>5, <1>6, <1>9, FounderStays DEF AccountsInv

(* A new user is nobody's user yet.                                        *)
LEMMA NewUser ==
  ASSUME AccountsInv, NEW a \in Unused, NEW n \in Names, NEW owner \in BOOLEAN, Choose,
         account' = [account EXCEPT ![a] = NewAccount(n, owner)], orders' >= orders,
         orders' \in 0..MaxOrders, setup' = setup
  PROVE  UsersFit' /\ UsersStay /\ a \in Present'
<1> DEFINE r == NewAccount(n, owner)
<1>1. r \in UserRecord /\ r.disablings = 0 /\ chosen' \in 0..MaxPasswords
  BY AccountsAssumption DEF NewAccount, UserRecord, Choose, AccountsInv, UsersFit
<1>2. account' = [account EXCEPT ![a] = r]
  OBVIOUS
<1> HIDE DEF r
<1>3. /\ account'[a] = r /\ r # Nobody /\ \A b \in Accounts \ {a} : account'[b] = account[b]
      /\ account' \in [Accounts -> {Nobody} \cup UserRecord]
  BY <1>1, <1>2, RowsAreRows DEF Unused, AccountsInv, UsersFit
<1>4. a \in Accounts /\ Present' = Present \cup {a} /\ a \notin Present
  BY <1>3 DEF Present, Unused
<1>5. ASSUME NEW b \in Present' PROVE account'[b].disablings <= orders'
  <2>1. \A x \in Present : account[x].disablings \in Nat /\ account[x].disablings <= orders
    BY DEF AccountsInv, UsersFit, Present, UserRecord
  <2>2. orders \in Nat /\ orders' \in Nat /\ (b \in Present => b \in Accounts)
    BY AccountsAssumption DEF AccountsInv, UsersFit, Present
  <2> QED BY <1>1, <1>3, <1>4, <2>1, <2>2
<1>6. UsersStay
  BY <1>3, <1>4 DEF UsersStay, Present
<1> QED BY <1>1, <1>3, <1>4, <1>5, <1>6 DEF AccountsInv, UsersFit

(* A first owner is made only while nobody is there.                       *)
LEMMA CreateOwnerKeeps ==
  ASSUME AccountsInv, NEW c \in Clients, NEW a \in Accounts, CreateOwner(c, a)
  PROVE  AccountsInv'
<1>1. task[c].at = "insert" /\ task[c].name \in Names /\ a \in Unused
  BY DEF CreateOwner, At, AccountsInv, TasksFit, TaskFits
<1>2. CASE /\ Stop(c) /\ UNCHANGED <<account, session, held, setup, founded, chosen>>
  <2>1. Present' = Present /\ UsersStay
    BY <1>2 DEF Present, UsersStay
  <2>2. UsersFit'
    BY <1>2, <2>1 DEF AccountsInv, UsersFit, Stop
  <2>3. SessionsFit'
    BY <1>2, <2>1, SessionStays DEF AccountsInv, SessionsFit
  <2>4. TasksFit'
    BY <1>2, <2>1, TasksStay DEF AccountsInv, Stop, TasksFit
  <2> QED BY <1>2, <2>1, <2>2, <2>3, <2>4, FounderStays DEF AccountsInv
<1>3. CASE Present = {} /\ InsertOwner(c, a)
  <2>1. /\ account' = [account EXCEPT ![a] = NewAccount(task[c].name, TRUE)] /\ Choose
        /\ founded' = founded \cup {a} /\ UNCHANGED <<session, held, setup, orders, failures>>
        /\ OpenFor(c, a, chosen + 1)
    BY <1>3 DEF InsertOwner
  <2>2. UsersFit' /\ UsersStay /\ a \in Present'
    <3>1. orders \in 0..MaxOrders /\ orders' = orders /\ orders' >= orders /\ setup' = setup
      BY <2>1, AccountsAssumption DEF AccountsInv, UsersFit
    <3>2. PICK n \in Names : account' = [account EXCEPT ![a] = NewAccount(n, TRUE)]
      BY <1>1, <2>1
    <3> QED BY <1>1, <2>1, <3>1, <3>2, NewUser
  <2>3. SessionsFit'
    BY <2>1, <2>2, SessionStays DEF AccountsInv, SessionsFit
  <2>4. Founder'
    BY <1>3, <2>1, <2>2 DEF AccountsInv, Founder
  <2>5. /\ task'[c].at = "session" /\ task'[c].a = a /\ task'[c].old = chosen + 1
        /\ DOMAIN task' = Clients /\ \A d \in Clients \ {c} : task'[d] = task[d]
    BY <2>1 DEF OpenFor, AccountsInv, TasksFit
  <2>6. chosen + 1 \in 1..MaxPasswords
    BY <2>1, AccountsAssumption DEF Choose, AccountsInv, UsersFit
  <2>7. TaskFits(c)'
    BY <2>2, <2>5, <2>6 DEF TaskFits
  <2>8. ASSUME NEW d \in Clients \ {c} PROVE TaskFits(d)'
    BY <2>2, <2>5 DEF AccountsInv, TasksFit, TaskFits, UsersStay
  <2> QED BY <2>2, <2>3, <2>4, <2>5, <2>7, <2>8 DEF AccountsInv, TasksFit
<1> QED BY <1>2, <1>3 DEF CreateOwner

(* A session opens with what its request has read: the password of now, or *)
(* a late one.                                                             *)
LEMMA CreateSessionKeeps ==
  ASSUME AccountsInv, NEW c \in Clients, NEW s \in Sessions, CreateSession(c, s)
  PROVE  AccountsInv'
<1> DEFINE a == task[c].a
           isLate == account[a].hash # task[c].old
           r == [user |-> a, revoked |-> FALSE, disablings |-> account[a].disablings,
                 by |-> task[c].old, late |-> isLate]
<1>1. /\ task[c].at = "session" /\ session' = [session EXCEPT ![s] = r]
      /\ task' = [task EXCEPT ![c] = [do |-> task[c].do, at |-> "answer", s |-> s]]
      /\ UNCHANGED <<account, held, setup, founded, chosen, orders, failures>>
  BY DEF CreateSession
<1>2. a \in Present /\ task[c].old \in 1..MaxPasswords /\ a \in Accounts
  BY <1>1 DEF AccountsInv, TasksFit, TaskFits, Present
<1>3. account[a].disablings \in 0..MaxOrders /\ isLate \in BOOLEAN
  BY <1>2 DEF AccountsInv, UsersFit, Present, UserRecord
<1> HIDE DEF isLate
<1>4. /\ r \in SessionRecord /\ r.user = a /\ r.by = task[c].old /\ r.late = isLate
      /\ r.disablings = account[a].disablings
  BY <1>2, <1>3 DEF SessionRecord
<1> HIDE DEF r
<1>5. /\ session'[s] = r /\ \A t \in Sessions \ {s} : session'[t] = session[t]
      /\ session' \in [Sessions -> {Nobody} \cup SessionRecord]
  BY <1>1, <1>4 DEF AccountsInv, SessionsFit
<1>6. Present' = Present /\ UsersStay
  BY <1>1 DEF Present, UsersStay
<1>7. SessionFits(s)'
  BY <1>1, <1>2, <1>4, <1>5, <1>6 DEF SessionFits, isLate
<1>8. ASSUME NEW t \in Sessions \ {s} PROVE SessionFits(t)'
  BY <1>5, <1>6, SessionStays DEF AccountsInv, SessionsFit
<1>9. SessionsFit'
  BY <1>1, <1>5, <1>7, <1>8 DEF AccountsInv, SessionsFit
<1>10. UsersFit'
  BY <1>1, <1>6 DEF AccountsInv, UsersFit
<1>11. /\ task'[c].at = "answer" /\ task'[c].s = s
       /\ DOMAIN task' = Clients /\ \A d \in Clients \ {c} : task'[d] = task[d]
  BY <1>1 DEF AccountsInv, TasksFit
<1>12. TaskFits(c)'
  BY <1>11 DEF TaskFits
<1>13. ASSUME NEW d \in Clients \ {c} PROVE TaskFits(d)'
  BY <1>6, <1>11 DEF AccountsInv, TasksFit, TaskFits
<1>14. TasksFit'
  BY <1>11, <1>12, <1>13 DEF TasksFit
<1> QED BY <1>1, <1>6, <1>9, <1>10, <1>14, FounderStays DEF AccountsInv

(* The token of a session that still holds is given out.                   *)
LEMMA AnswerKeeps ==
  ASSUME AccountsInv, NEW c \in Clients, AnswerSession(c)
  PROVE  AccountsInv'
<1>1. /\ task[c].at = "answer" /\ held' = held \cup {s \in {task[c].s} : Usable(s)} /\ Stop(c)
      /\ setup' \in BOOLEAN /\ UNCHANGED <<account, session, founded, chosen>>
  BY DEF AnswerSession
<1>2. Present' = Present /\ UsersStay
  BY <1>1 DEF Present, UsersStay
<1>3. UsersFit'
  BY <1>1, <1>2 DEF AccountsInv, UsersFit, Stop
<1>4. held' \subseteq Sessions
  BY <1>1 DEF AccountsInv, TasksFit, TaskFits, SessionsFit
<1>5. SessionsFit'
  BY <1>1, <1>2, <1>4, SessionStays DEF AccountsInv, SessionsFit
<1>6. TasksFit'
  BY <1>1, <1>2, TasksStay DEF AccountsInv, Stop, TasksFit
<1> QED BY <1>1, <1>2, <1>3, <1>5, <1>6, FounderStays DEF AccountsInv

(* A logout revokes one session.                                           *)
LEMMA LogoutKeeps ==
  ASSUME AccountsInv, NEW s \in Sessions, Logout(s)
  PROVE  AccountsInv'
<1>1. /\ session[s] # Nobody /\ orders < MaxOrders /\ orders' = orders + 1
      /\ session' = [session EXCEPT ![s].revoked = TRUE]
      /\ UNCHANGED <<account, held, setup, task, founded, chosen, failures>>
  BY DEF Logout, Usable
<1>2. Present' = Present /\ UsersStay
  BY <1>1 DEF Present, UsersStay
<1>3. UsersFit'
  BY <1>1, <1>2, AccountsAssumption DEF AccountsInv, UsersFit, UserRecord, Present
<1> DEFINE r == [session[s] EXCEPT !.revoked = TRUE]
<1>4. r \in SessionRecord /\ r.user = session[s].user /\ r.revoked
  BY <1>1 DEF AccountsInv, SessionsFit, SessionRecord
<1>5. session' = [session EXCEPT ![s] = r]
  BY <1>1
<1> HIDE DEF r
<1>6. /\ session'[s] = r /\ \A t \in Sessions \ {s} : session'[t] = session[t]
      /\ session' \in [Sessions -> {Nobody} \cup SessionRecord]
  BY <1>4, <1>5 DEF AccountsInv, SessionsFit
<1>7. SessionFits(s)'
  BY <1>1, <1>2, <1>4, <1>6 DEF AccountsInv, SessionsFit, SessionFits
<1>8. ASSUME NEW t \in Sessions \ {s} PROVE SessionFits(t)'
  BY <1>2, <1>6, SessionStays DEF AccountsInv, SessionsFit
<1>9. SessionsFit'
  BY <1>1, <1>6, <1>7, <1>8 DEF AccountsInv, SessionsFit
<1> QED BY <1>1, <1>2, <1>3, <1>9, TasksStay, FounderStays DEF AccountsInv, TasksFit

(* What replaces a password or ends a period revokes every session of the  *)
(* user; those of others do not notice.                                    *)
LEMMA RevokingKeeps ==
  ASSUME AccountsInv, NEW a \in Present, session' = Revoked(a, session), held' = held,
         account'[a] \in UserRecord, \A b \in Accounts \ {a} : account'[b] = account[b]
  PROVE  Present' = Present /\ SessionsFit'
<1>1. account'[a] # Nobody /\ a \in Accounts
  BY RowsAreRows DEF Present
<1>2. Present' = Present
  BY <1>1 DEF Present
<1>3. /\ session' \in [Sessions -> {Nobody} \cup SessionRecord]
      /\ \A s \in Sessions :
           /\ session[s] = Nobody => session'[s] = Nobody
           /\ session[s] # Nobody =>
                /\ session'[s] # Nobody /\ session'[s].user = session[s].user
                /\ session[s].user = a => session'[s].revoked
                /\ session[s].user # a => session'[s] = session[s]
  BY <1>1, RevokedIs DEF AccountsInv
<1>4. ASSUME NEW s \in Sessions, session'[s] # Nobody PROVE SessionFits(s)'
  <2>1. session[s] # Nobody /\ SessionFits(s) /\ session'[s].user = session[s].user
    BY <1>3, <1>4 DEF AccountsInv, SessionsFit
  <2>2. CASE session[s].user = a
    BY <1>2, <1>3, <2>1, <2>2 DEF SessionFits
  <2>3. CASE session[s].user # a
    <3>1. session'[s] = session[s] /\ session[s].user \in Accounts \ {a}
      BY <1>3, <2>1, <2>3 DEF SessionFits, Present
    <3> QED BY <1>1, <1>2, <2>1, <3>1 DEF SessionFits
  <2> QED BY <2>2, <2>3
<1>5. \A s \in Sessions : SessionFits(s)'
  BY <1>4 DEF SessionFits
<1> QED BY <1>1, <1>2, <1>3, <1>5 DEF AccountsInv, SessionsFit

(* The new password is the one its request has hashed, or nothing changes. *)
LEMMA ChangeUserPasswordKeeps ==
  ASSUME AccountsInv, NEW c \in Clients, ChangeUserPassword(c)
  PROVE  AccountsInv'
<1> DEFINE a == task[c].a
           r == [account[a] EXCEPT !.hash = chosen + 1]
<1>1. /\ task[c].at = "commit" /\ chosen < MaxPasswords /\ chosen' = chosen + 1 /\ Stop(c)
      /\ UNCHANGED <<held, setup, founded>>
      /\ \/ UNCHANGED <<account, session>>
         \/ account' = [account EXCEPT ![a] = r] /\ session' = Revoked(a, session)
  BY DEF ChangeUserPassword, Choose, NewHash
<1>2. a \in Present /\ a \in Accounts /\ orders' = orders
  BY <1>1 DEF AccountsInv, TasksFit, TaskFits, Present, Stop
<1>3. chosen' \in 0..MaxPasswords /\ chosen + 1 \in 1..MaxPasswords
  BY <1>1, AccountsAssumption DEF AccountsInv, UsersFit
<1>4. CASE UNCHANGED <<account, session>>
  <2>1. Present' = Present /\ UsersStay
    BY <1>4 DEF Present, UsersStay
  <2>2. UsersFit'
    BY <1>1, <1>2, <1>3, <1>4, <2>1 DEF AccountsInv, UsersFit
  <2>3. SessionsFit'
    BY <1>1, <1>4, <2>1, SessionStays DEF AccountsInv, SessionsFit
  <2>4. TasksFit'
    BY <1>1, <2>1, TasksStay DEF AccountsInv, Stop, TasksFit
  <2> QED BY <1>1, <2>1, <2>2, <2>3, <2>4, FounderStays DEF AccountsInv
<1>5. CASE account' = [account EXCEPT ![a] = r] /\ session' = Revoked(a, session)
  <2>1. r \in UserRecord /\ r.disablings = account[a].disablings
    BY <1>2, <1>3 DEF AccountsInv, UsersFit, UserRecord, Present
  <2> HIDE DEF r
  <2>2. /\ account'[a] = r /\ \A b \in Accounts \ {a} : account'[b] = account[b]
        /\ account' \in [Accounts -> {Nobody} \cup UserRecord]
    BY <1>2, <1>5, <2>1 DEF AccountsInv, UsersFit
  <2>3. Present' = Present /\ SessionsFit'
    BY <1>1, <1>2, <1>5, <2>1, <2>2, RevokingKeeps
  <2>4. \A b \in Present' : account'[b].disablings <= orders'
    BY <1>2, <2>1, <2>2, <2>3 DEF AccountsInv, UsersFit, Present
  <2>5. UsersFit'
    BY <1>1, <1>2, <1>3, <2>2, <2>4 DEF AccountsInv, UsersFit
  <2>6. TasksFit'
    BY <1>1, <2>3, TasksStay DEF AccountsInv, Stop, TasksFit
  <2> QED BY <1>1, <2>3, <2>5, <2>6, FounderStays DEF AccountsInv
<1> QED BY <1>1, <1>4, <1>5

(* An administrator adds a user.                                           *)
LEMMA CreateAccountKeeps ==
  ASSUME AccountsInv, NEW by \in Accounts, NEW a \in Accounts, NEW n \in Names, CreateUser(by, a, n)
  PROVE  AccountsInv'
<1>1. /\ a \in Unused /\ Choose /\ orders < MaxOrders /\ orders' = orders + 1
      /\ account' = [account EXCEPT ![a] = NewAccount(n, FALSE)]
      /\ UNCHANGED <<session, held, setup, task, founded, failures>>
  BY DEF CreateUser
<1>2. orders' \in 0..MaxOrders /\ orders' >= orders
  BY <1>1, AccountsAssumption DEF AccountsInv, UsersFit
<1>3. UsersFit' /\ UsersStay
  BY <1>1, <1>2, NewUser
<1>4. SessionsFit'
  BY <1>1, <1>3, SessionStays DEF AccountsInv, SessionsFit
<1>5. TasksFit'
  BY <1>1, <1>3, TasksStay DEF AccountsInv, TasksFit, UsersStay
<1> QED BY <1>1, <1>3, <1>4, <1>5, FounderStays DEF AccountsInv, UsersStay

(* A renamed user logs in again.                                           *)
LEMMA UpdateUserIdentityKeeps ==
  ASSUME AccountsInv, NEW by \in Accounts, NEW a \in Accounts, NEW n \in Names,
         UpdateUserIdentity(by, a, n)
  PROVE  AccountsInv'
<1> DEFINE r == [account[a] EXCEPT !.name = n]
<1>1. /\ a \in Present /\ orders < MaxOrders /\ orders' = orders + 1
      /\ account' = [account EXCEPT ![a] = r] /\ session' = Revoked(a, session)
      /\ UNCHANGED <<held, setup, task, founded, chosen, failures>>
  BY DEF UpdateUserIdentity
<1>2. orders' \in 0..MaxOrders /\ orders' >= orders /\ orders \in Nat
  BY <1>1, AccountsAssumption DEF AccountsInv, UsersFit
<1>3. r \in UserRecord /\ r.disablings = account[a].disablings
  BY <1>1 DEF AccountsInv, UsersFit, UserRecord, Present
<1> HIDE DEF r
<1>4. /\ account'[a] = r /\ \A b \in Accounts \ {a} : account'[b] = account[b]
      /\ account' \in [Accounts -> {Nobody} \cup UserRecord]
  BY <1>1, <1>3 DEF AccountsInv, UsersFit
<1>5. Present' = Present /\ SessionsFit'
  BY <1>1, <1>3, <1>4, RevokingKeeps
<1>6. ASSUME NEW b \in Present' PROVE account'[b].disablings <= orders'
  <2>1. b \in Accounts /\ account[b].disablings \in Nat /\ account[b].disablings <= orders
    BY <1>5 DEF AccountsInv, UsersFit, Present, UserRecord
  <2> QED BY <1>2, <1>3, <1>4, <2>1
<1>7. UsersFit'
  BY <1>1, <1>2, <1>4, <1>6 DEF AccountsInv, UsersFit
<1>8. TasksFit'
  BY <1>1, <1>5, TasksStay DEF AccountsInv, TasksFit
<1> QED BY <1>1, <1>5, <1>7, <1>8, FounderStays DEF AccountsInv

(* Disabling ends a period, and with it the sessions.                      *)
LEMMA DisableKeeps ==
  ASSUME AccountsInv, NEW by \in Accounts, NEW a \in Accounts, Disable(by, a)
  PROVE  AccountsInv'
<1> DEFINE r == [account[a] EXCEPT !.on = FALSE, !.disablings = @ + 1]
<1>1. /\ a \in Present /\ orders < MaxOrders /\ orders' = orders + 1
      /\ account' = [account EXCEPT ![a] = r] /\ session' = Revoked(a, session)
      /\ UNCHANGED <<held, setup, task, founded, chosen, failures>>
  BY DEF Disable
<1>2. orders' \in 0..MaxOrders /\ orders' >= orders /\ orders \in Nat
  BY <1>1, AccountsAssumption DEF AccountsInv, UsersFit
<1>3. account[a] \in UserRecord /\ account[a].disablings \in Nat /\ account[a].disablings <= orders
  BY <1>1 DEF AccountsInv, UsersFit, UserRecord, Present
<1>4. r \in UserRecord /\ r.disablings <= orders'
  <2>1. account[a].disablings + 1 \in 0..MaxOrders /\ account[a].disablings + 1 <= orders'
    BY <1>1, <1>2, <1>3, AccountsAssumption
  <2>2. r \in UserRecord /\ r.disablings = account[a].disablings + 1
    BY <1>3, <2>1 DEF UserRecord
  <2> QED BY <2>1, <2>2
<1> HIDE DEF r
<1>5. /\ account'[a] = r /\ \A b \in Accounts \ {a} : account'[b] = account[b]
      /\ account' \in [Accounts -> {Nobody} \cup UserRecord]
  BY <1>1, <1>4 DEF AccountsInv, UsersFit
<1>6. Present' = Present /\ SessionsFit'
  BY <1>1, <1>4, <1>5, RevokingKeeps
<1>7. ASSUME NEW b \in Present' PROVE account'[b].disablings <= orders'
  <2>1. b \in Accounts /\ account[b].disablings \in Nat /\ account[b].disablings <= orders
    BY <1>6 DEF AccountsInv, UsersFit, Present, UserRecord
  <2> QED BY <1>2, <1>4, <1>5, <2>1
<1>8. UsersFit'
  BY <1>1, <1>2, <1>5, <1>7 DEF AccountsInv, UsersFit
<1>9. TasksFit'
  BY <1>1, <1>6, TasksStay DEF AccountsInv, TasksFit
<1> QED BY <1>1, <1>6, <1>8, <1>9, FounderStays DEF AccountsInv

(* Enabling brings nothing back.                                           *)
LEMMA EnableKeeps ==
  ASSUME AccountsInv, NEW by \in Accounts, NEW a \in Accounts, Enable(by, a)
  PROVE  AccountsInv'
<1> DEFINE r == [account[a] EXCEPT !.on = TRUE]
<1>1. /\ a \in Present /\ orders < MaxOrders /\ orders' = orders + 1
      /\ account' = [account EXCEPT ![a] = r]
      /\ UNCHANGED <<session, held, setup, task, founded, chosen, failures>>
  BY DEF Enable
<1>2. orders' \in 0..MaxOrders /\ orders' >= orders /\ orders \in Nat
  BY <1>1, AccountsAssumption DEF AccountsInv, UsersFit
<1>3. r \in UserRecord /\ r.disablings = account[a].disablings /\ r.hash = account[a].hash
  BY <1>1 DEF AccountsInv, UsersFit, UserRecord, Present
<1> HIDE DEF r
<1>4. /\ account'[a] = r /\ \A b \in Accounts \ {a} : account'[b] = account[b]
      /\ account' \in [Accounts -> {Nobody} \cup UserRecord]
  BY <1>1, <1>3 DEF AccountsInv, UsersFit
<1>5. Present' = Present /\ UsersStay
  BY <1>1, <1>3, <1>4, RowsAreRows DEF Present, UsersStay
<1>6. ASSUME NEW b \in Present' PROVE account'[b].disablings <= orders'
  <2>1. b \in Accounts /\ account[b].disablings \in Nat /\ account[b].disablings <= orders
    BY <1>5 DEF AccountsInv, UsersFit, Present, UserRecord
  <2> QED BY <1>2, <1>3, <1>4, <2>1
<1>7. UsersFit'
  BY <1>1, <1>2, <1>4, <1>6 DEF AccountsInv, UsersFit
<1>8. SessionsFit'
  BY <1>1, <1>5, SessionStays DEF AccountsInv, SessionsFit
<1>9. TasksFit'
  BY <1>1, <1>5, TasksStay DEF AccountsInv, TasksFit
<1> QED BY <1>1, <1>5, <1>7, <1>8, <1>9, FounderStays DEF AccountsInv

-----------------------------------------------------------------------------
(* A request that fails, and a restart, which forgets revoked sessions.    *)
LEMMA FailuresKeep ==
  ASSUME AccountsInv, (\E c \in Clients : RequestFails(c)) \/ Restart
  PROVE  AccountsInv'
<1>1. /\ UNCHANGED <<account, held, founded, chosen, orders>> /\ setup' \in BOOLEAN
      /\ DOMAIN task' = Clients /\ \A d \in Clients : task'[d] = task[d] \/ task'[d] = Free
  BY DEF RequestFails, Restart, AccountsInv, TasksFit, UsersFit
<1>2. Present' = Present /\ UsersStay
  BY <1>1 DEF Present, UsersStay
<1>3. UsersFit'
  BY <1>1, <1>2 DEF AccountsInv, UsersFit
<1>4. /\ session' \in [Sessions -> {Nobody} \cup SessionRecord]
      /\ \A s \in Sessions : session'[s] = session[s] \/ session'[s] = Nobody
  BY DEF RequestFails, Restart, AccountsInv, SessionsFit
<1>5. ASSUME NEW s \in Sessions PROVE SessionFits(s)'
  <2>1. CASE session'[s] = session[s]
    BY <1>2, <2>1, SessionStays DEF AccountsInv, SessionsFit
  <2>2. CASE session'[s] = Nobody
    BY <2>2 DEF SessionFits
  <2> QED BY <1>4, <2>1, <2>2
<1>6. SessionsFit'
  BY <1>1, <1>4, <1>5 DEF AccountsInv, SessionsFit
<1>7. TasksFit'
  BY <1>1, <1>2, TasksStay DEF AccountsInv
<1> QED BY <1>1, <1>2, <1>3, <1>6, <1>7, FounderStays DEF AccountsInv

-----------------------------------------------------------------------------
(* AccountsInv is inductive.                                               *)
LEMMA AccountsInvInit == AccountsInit => AccountsInv
<1> SUFFICES ASSUME AccountsInit PROVE AccountsInv
  OBVIOUS
<1>1. Present = {}
  BY DEF AccountsInit, Present
<1>2. UsersFit
  BY <1>1, AccountsAssumption DEF AccountsInit, UsersFit
<1>3. SessionsFit
  BY DEF AccountsInit, SessionsFit, SessionFits
<1>4. TasksFit
  <2>1. Free.at = "none"
    BY DEF Free
  <2> QED BY <2>1 DEF AccountsInit, TasksFit, TaskFits
<1> QED BY <1>2, <1>3, <1>4 DEF AccountsInv, AccountsInit, Founder

(* Every step of the accounts keeps AccountsInv.                           *)
LEMMA AccountsInvNext == AccountsInv /\ [AccountsNext]_accountVars => AccountsInv'
<1> SUFFICES ASSUME AccountsInv, [AccountsNext]_accountVars PROVE AccountsInv'
  OBVIOUS
<1>1. CASE UNCHANGED accountVars
  <2>1. /\ account' = account /\ session' = session /\ held' = held /\ setup' = setup /\ task' = task
        /\ founded' = founded /\ chosen' = chosen /\ orders' = orders
    BY <1>1 DEF accountVars
  <2>2. Present' = Present /\ UsersStay
    BY <2>1 DEF Present, UsersStay
  <2>3. UsersFit'
    BY <2>1, <2>2 DEF AccountsInv, UsersFit
  <2>4. SessionsFit'
    BY <2>1, <2>2, SessionStays DEF AccountsInv, SessionsFit
  <2>5. TasksFit'
    BY <2>1, <2>2, TasksStay DEF AccountsInv, TasksFit
  <2> QED BY <2>1, <2>2, <2>3, <2>4, <2>5, FounderStays DEF AccountsInv
<1>2. ASSUME NEW c \in Clients,
             \/ \E n \in Names : Bootstrap(c, n)
             \/ \E a \in Accounts : CreateOwner(c, a) \/ Login(c, a) \/ ChangePassword(c, a)
                                    \/ \E by \in Accounts : ResetPassword(c, by, a)
             \/ \E s \in Sessions : CreateSession(c, s)
             \/ AnswerSession(c) \/ ChangeUserPassword(c) \/ RequestFails(c)
      PROVE  AccountsInv'
  BY <1>2, StartKeeps, CreateOwnerKeeps, CreateSessionKeeps, AnswerKeeps,
    ChangeUserPasswordKeeps, FailuresKeep
<1>3. ASSUME NEW by \in Accounts, NEW a \in Accounts,
             \/ Disable(by, a) \/ Enable(by, a)
             \/ \E n \in Names : CreateUser(by, a, n) \/ UpdateUserIdentity(by, a, n)
      PROVE  AccountsInv'
  BY <1>3, DisableKeeps, EnableKeeps, CreateAccountKeeps, UpdateUserIdentityKeeps
<1> QED BY <1>1, <1>2, <1>3, LogoutKeeps, FailuresKeep DEF AccountsNext

(* A password is only replaced by the request that has read it.            *)
LEMMA OverwritesWhatItRead ==
  ASSUME AccountsInv, [AccountsNext]_accountVars, NEW a \in Present, account'[a].hash # account[a].hash
  PROVE  \E c \in Clients : /\ task[c].at = "commit" /\ task[c].a = a
                            /\ task[c].old = account[a].hash /\ task'[c] = Free
<1>1. a \in Accounts /\ account[a] \in UserRecord /\ account' # account
  BY DEF Present, AccountsInv, UsersFit
<1>2. CASE \E c \in Clients : ChangeUserPassword(c)
  <2>1. PICK c \in Clients : ChangeUserPassword(c)
    BY <1>2
  <2>2. account[task[c].a].hash = task[c].old /\ NewHash(task[c].a)
    BY <1>1, <2>1 DEF ChangeUserPassword
  <2>3. task[c].a \in Accounts /\ task[c].a = a
    BY <1>1, <2>2 DEF NewHash, AccountsInv, UsersFit
  <2> QED BY <2>1, <2>2, <2>3 DEF ChangeUserPassword, Stop, AccountsInv, TasksFit
<1>3. CASE \E c \in Clients, b \in Accounts : CreateOwner(c, b)
  <2>1. PICK b \in Unused, r \in {NewAccount(task[c].name, TRUE) : c \in Clients} :
          account' = [account EXCEPT ![b] = r]
    BY <1>1, <1>3 DEF CreateOwner, InsertOwner
  <2> QED BY <1>1, <2>1 DEF Unused, Present, AccountsInv, UsersFit
<1>4. CASE \E by, b \in Accounts : Disable(by, b) \/ Enable(by, b)
  BY <1>1, <1>4 DEF Disable, Enable, Present, AccountsInv, UsersFit, UserRecord
<1>5. CASE \E by, b \in Accounts, n \in Names : CreateUser(by, b, n) \/ UpdateUserIdentity(by, b, n)
  <2>1. PICK by \in Accounts, b \in Accounts, n \in Names : CreateUser(by, b, n) \/ UpdateUserIdentity(by, b, n)
    BY <1>5
  <2>2. CASE CreateUser(by, b, n)
    BY <1>1, <2>2 DEF CreateUser, Unused, Present, AccountsInv, UsersFit
  <2>3. CASE UpdateUserIdentity(by, b, n)
    BY <1>1, <2>3 DEF UpdateUserIdentity, Present, AccountsInv, UsersFit, UserRecord
  <2> QED BY <2>1, <2>2, <2>3
<1> QED BY <1>1, <1>2, <1>3, <1>4, <1>5 DEF AccountsNext, accountVars, Bootstrap, Login,
  ChangePassword, ResetPassword, Intend, Start, CreateSession, AnswerSession, RequestFails,
  Logout, Restart

(* Accounts keep their types; one founder is made however many are set up  *)
(* at once; a session in use was opened with the present password or by a  *)
(* login that had verified the last one; enabling a user revives none; and *)
(* no change of a password undoes one it has not seen (security.Service,   *)
(* state/security.go).                                                     *)
THEOREM LoginsHold == AccountsSpec => LoginsAreSound
<1>1. AccountsInv => AccountsTypeOK
  BY DEF AccountsInv, UsersFit, SessionsFit, SessionFits, TasksFit, TaskFits, Founder,
    AccountsTypeOK
<1>2. AccountsInv => OneFounder
  <2> SUFFICES ASSUME AccountsInv PROVE Cardinality(founded) <= 1
    BY DEF OneFounder
  <2>1. CASE founded = {}
    BY <2>1, FS_EmptySet
  <2>2. ASSUME NEW a \in Present, founded = {a} PROVE Cardinality(founded) <= 1
    BY <2>2, FS_Singleton
  <2> QED BY <2>1, <2>2 DEF AccountsInv, Founder
<1>3. AccountsInv => SessionsFollowPassword /\ SessionsEndWithDisabling
  BY DEF AccountsInv, SessionsFit, SessionFits, SessionsFollowPassword,
    SessionsEndWithDisabling, Usable
<1>4. AccountsInv /\ [AccountsNext]_accountVars =>
        \A a \in Present : account'[a].hash # account[a].hash =>
          \E c \in Clients : /\ task[c].at = "commit" /\ task[c].a = a
                             /\ task[c].old = account[a].hash /\ task'[c] = Free
  BY OverwritesWhatItRead
<1> QED BY <1>1, <1>2, <1>3, <1>4, AccountsInvInit, AccountsInvNext, PTL
        DEF AccountsSpec, LoginsAreSound, PasswordNotOverwritten

=============================================================================
