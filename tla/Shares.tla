-------------------------------- MODULE Shares --------------------------------
(***************************************************************************)
(* Who may reach which NAS folder, in the tables of Core and over Samba.   *)
(* Every change of access (internal/api: userAccess, fileFolders,          *)
(* fileFolderDelete, fileFolderManagement, fileUserQuotas, smbOperation)   *)
(* holds fileMutationMu, so op is one program counter.  It has the helper  *)
(* stop Samba and empty its configuration, commits, and has the helper     *)
(* write the configuration anew from the tables.  Any call may fail, Core  *)
(* and the helper may die and the host may reboot between two steps.  A    *)
(* call Core gives up on (the request's context ends, Core dies) goes on   *)
(* in the helper, beside whatever holds the mutex next.                    *)
(* Abstractions: a grant is for reading and writing; administrators hold   *)
(* every permission and the others no more than grants.                    *)
(***************************************************************************)
EXTENDS Integers, FiniteSets, FiniteSetsExt

CONSTANTS
  Users, Folders,
  Owners,                    (* the administrators at first                *)
  Latecomers,                (* users who may not be there yet             *)
  HomeOf,                    (* the folders at first, with their owners    *)
  MaxQuota,                  (* quotas are 0 (none) .. MaxQuota            *)
  None,
  MaxRequests, MaxWaiting,   (* bounds: changes asked for; at a time       *)
  MaxMishaps                 (* bound: failed calls, deaths and reboots    *)

ASSUME SharesAssumption ==
  /\ Owners \cup Latecomers \subseteq Users
  /\ Owners \ Latecomers # {}
  /\ IsFiniteSet(Folders) /\ DOMAIN HomeOf \subseteq Folders
  /\ \A f \in DOMAIN HomeOf : HomeOf[f] \in Users
  /\ None \notin [admin : BOOLEAN, on : BOOLEAN] /\ None \notin Users
  /\ {MaxQuota, MaxRequests, MaxWaiting, MaxMishaps} \subseteq Nat

VARIABLES
  user, grant, folder, cap,  (* users, user_resource_permissions,          *)
                             (* nas_folders, nas_user_quotas               *)
  dir, kernel,               (* directories; limits of quota projects      *)
  smbd, conf,                (* Samba runs; its managed configuration      *)
  late,                      (* calls of the helper Core gave up on        *)
  astray,                    (* one of them changed Samba since the last   *)
                             (* suspension that had none beside (history)  *)
  op, waiting,               (* who holds fileMutationMu; who waits for it *)
  reconciling,               (* ReconcileFileAccess has not yet succeeded  *)
  fresh,                     (* users created since conf was made (history)*)
  warned,                    (* the last change ended in an error (history)*)
  cuts,                      (* deaths and failed clean-ups (history)      *)
  restarts,                  (* starts of the helper alone (history)       *)
  requests, mishaps

tables  == <<user, grant, folder, cap>>
disk    == <<dir, kernel>>
samba   == <<smbd, conf, late, astray>>
history == <<fresh, warned, cuts, restarts>>
budget  == <<requests, mishaps>>
shareVars == <<tables, disk, samba, op, waiting, reconciling, history, budget>>

(* A change: what was asked, how far it is, whether Samba was configured,  *)
(* the configuration made for it and the one it replaces.                  *)
Work(r, at, active) == [ask |-> r, at |-> at, active |-> active, model |-> {}, old |-> None]
Idle == Work([do |-> "idle"], "idle", FALSE)
-----------------------------------------------------------------------------
(* What the tables say: buildSMBModel.                                     *)

Enabled == {u \in Users : user[u] # None /\ user[u].on}
Administers(u) == u \in Enabled /\ user[u].admin
Administrators == {u \in Users : Administers(u)}
Existing == {f \in Folders : folder[f] # None}
(* Ids are random: one that was never handed out.                          *)
FreeIds == {f \in Folders \ dir : folder[f] = None /\ kernel[f] = 0}
OwnedBy(u) == {f \in Existing : folder[f].owner = u}

Verified(f) == folder[f].hard > 0 /\ kernel[f] = folder[f].hard
Total(rows, fs) == MapThenSumSet(LAMBDA f : rows[f].hard, fs)
Budget(u) == Total(folder, OwnedBy(u))
PersonallySafe(u) ==
  cap[u] > 0 => (\A f \in OwnedBy(u) : Verified(f)) /\ Budget(u) <= cap[u]
(* A bug: the kernel is not asked.                                         *)
WritableUnverified(f) == folder[f].quota = 0 \/ folder[f].hard > 0
(* smbWritableFolders: a finite quota must be one the kernel enforces.     *)
Writable(f) ==
  LET o == folder[f].owner IN
  IF folder[f].hard = 0 THEN folder[f].quota = 0 /\ (o # None => cap[o] = 0)
  ELSE Verified(f) /\ (o # None => PersonallySafe(o))

MayReach(f, u) == u \in Enabled /\ (user[u].admin \/ <<f, u>> \in grant)
Shared == {[f |-> x[1], u |-> x[2], w |-> Writable(x[1])] :
             x \in {y \in Existing \X Users : MayReach(y[1], y[2])}}
(* A host that is set up: the users but the absent, and their folders.     *)
SetUp(absent, admins, hard, homes) ==
  /\ user = [u \in Users |-> IF u \in absent THEN None
                            ELSE [admin |-> u \in Owners \cup admins, on |-> TRUE]]
  /\ folder = [f \in Folders |-> IF f \notin homes THEN None
                                ELSE [owner |-> HomeOf[f], quota |-> hard, hard |-> hard]]
  /\ kernel = [f \in Folders |-> IF f \in homes THEN hard ELSE 0]
  /\ grant = {<<f, HomeOf[f]>> : f \in homes} /\ dir = homes
SharesInit ==
  /\ \E absent \in SUBSET Latecomers, admins \in SUBSET Users, hard \in 0..MaxQuota :
       SetUp(absent, admins, hard, {f \in DOMAIN HomeOf : HomeOf[f] \notin absent})
  /\ cap = [u \in Users |-> 0]
  /\ conf \in {None, Shared} /\ smbd = (conf # None) /\ late = {} /\ astray = FALSE
  /\ op = Idle /\ waiting = {} /\ reconciling = FALSE
  /\ fresh = {} /\ warned = FALSE /\ cuts = 0 /\ restarts = 0
  /\ requests = 0 /\ mishaps = 0

-----------------------------------------------------------------------------
(* A request arrives with an actor who was authorised then, waits for the  *)
(* mutex and is authorised again (refreshMutationActor).                   *)

Ask(r) ==
  /\ Administers(r.by) /\ requests < MaxRequests /\ requests' = requests + 1
  /\ Cardinality(waiting) < MaxWaiting /\ waiting' = waiting \cup {r}
  /\ UNCHANGED <<tables, disk, samba, op, reconciling, history, mishaps>>

(* What a handler refuses before it touches Samba.                         *)
Refused(r) ==
  \/ r.do \in {"manage", "delete"} /\ r.f \notin Existing \cap dir
  \/ r.do = "delete" /\ r.f \in Existing /\ folder[r.f].hard > 0
  \/ r.do = "manage" /\ r.enforce /\ r.quota = 0
  \/ r.do = "create" /\ r.f \notin FreeIds
First(r) == IF r.do = "apply" THEN "build" ELSE "stop"
Begin(r) == op' = Work(r, First(r), r.do = "apply")

(* A bug: the actor of the arrival is trusted.                             *)
AdmitTrusted(r) ==
  /\ op = Idle /\ r \in waiting /\ waiting' = waiting \ {r}
  /\ IF Refused(r) THEN UNCHANGED op ELSE Begin(r)
  /\ UNCHANGED <<tables, disk, samba, reconciling, history, budget>>
Admit(r) ==
  /\ op = Idle /\ r \in waiting /\ waiting' = waiting \ {r}
  /\ IF Administers(r.by) /\ ~Refused(r) THEN Begin(r) ELSE UNCHANGED op
  /\ UNCHANGED <<tables, disk, samba, reconciling, history, budget>>

Doing(do, at) == op.ask.do = do /\ op.at = at
GoOn(at) == op' = [op EXCEPT !.at = at] /\ UNCHANGED <<waiting, reconciling, history, budget>>
EndWith(bad) ==
  /\ op' = Idle /\ warned' = bad
  /\ reconciling' = (reconciling /\ (bad \/ op.ask.do # "reconcile"))
  /\ UNCHANGED <<waiting, requests>>
End == EndWith(FALSE) /\ UNCHANGED <<fresh, cuts, restarts, mishaps>>
-----------------------------------------------------------------------------
(* beginSMBAccessChange: smb.suspend stops Samba, then empties its file.   *)

(* A bug: only new sessions are kept out, by the empty file.               *)
StopSambaNot ==
  /\ op.at = "stop"
  /\ IF conf = None THEN op' = [op EXCEPT !.at = "work", !.active = FALSE]
                    ELSE op' = [op EXCEPT !.at = "work", !.active = TRUE]
  /\ UNCHANGED <<tables, disk, samba, waiting, reconciling, history, budget>>
StopSamba ==
  /\ op.at = "stop"
  /\ IF conf = None
     THEN op' = [op EXCEPT !.at = "work", !.active = FALSE] /\ UNCHANGED smbd
     ELSE op' = [op EXCEPT !.at = "empty", !.active = TRUE] /\ smbd' = FALSE
  /\ UNCHANGED <<tables, disk, conf, late, astray, waiting, reconciling, history, budget>>
EmptyConfig ==
  /\ op.at = "empty" /\ conf' = {} /\ GoOn("work")
  /\ astray' = (astray /\ (smbd \/ late # {}))
  /\ UNCHANGED <<tables, disk, smbd, late>>

(* finishSMBAccessChange: a configuration made from the tables, unless     *)
(* some folder has no directory; nothing when Samba was not configured.    *)
BuildModel ==
  /\ op.at = "build"
  /\ IF ~op.active THEN End
     ELSE IF ~(Existing \subseteq dir)
     THEN EndWith(TRUE) /\ UNCHANGED <<fresh, cuts, restarts, mishaps>>
     ELSE /\ op' = [op EXCEPT !.at = "write", !.model = Shared]
          /\ fresh' = {}
          /\ UNCHANGED <<waiting, reconciling, warned, cuts, restarts, budget>>
  /\ UNCHANGED <<tables, disk, samba>>
WriteConfig ==
  /\ op.at = "write" /\ conf' = op.model
  /\ op' = [op EXCEPT !.at = "test", !.old = conf]
  /\ UNCHANGED <<tables, disk, smbd, late, astray, waiting, reconciling, history, budget>>
ReloadSamba ==
  /\ op.at = "test" /\ smbd' = TRUE /\ End /\ UNCHANGED <<tables, disk, conf, late, astray>>
-----------------------------------------------------------------------------
(* The changes themselves.                                                 *)

Pairs(fs, us) == fs \X us
(* UpdateUserAccess and SetUserAccess: an administrator keeps their own    *)
(* role, one administrator remains, and owners keep their private folders. *)
AccessRefused ==
  /\ Administers(op.ask.user) /\ ~(op.ask.admin /\ op.ask.on)
  /\ op.ask.by = op.ask.user \/ Cardinality(Administrators) <= 1
SetUserAccessOf(kept) ==
  /\ Doing("access", "work")
  /\ IF user[op.ask.user] = None \/ AccessRefused THEN UNCHANGED <<user, grant>>
     ELSE /\ user' = [user EXCEPT ![op.ask.user] = [admin |-> op.ask.admin, on |-> op.ask.on]]
          /\ grant' = {g \in grant : g[2] # op.ask.user}
                        \cup Pairs((op.ask.folders \cap Existing) \cup kept, {op.ask.user})
  /\ GoOn("build") /\ UNCHANGED <<folder, cap, disk, samba>>
(* A bug: the grants are replaced with those of the request.               *)
SetUserAccessReplacing == SetUserAccessOf({})
SetUserAccess == SetUserAccessOf(OwnedBy(op.ask.user))

(* CreateNASFolder, then its directory; or the row is deleted again and    *)
(* the shares stay suspended.                                              *)
CreateNASFolder ==
  /\ Doing("create", "work")
  /\ folder' = [folder EXCEPT ![op.ask.f] = [owner |-> op.ask.owner, quota |-> 0, hard |-> 0]]
  /\ grant' = grant \cup (IF op.ask.owner = None THEN {} ELSE {<<op.ask.f, op.ask.owner>>})
  /\ GoOn("mkdir") /\ UNCHANGED <<user, cap, disk, samba>>
CreateRefused ==
  /\ Doing("create", "work") /\ EndWith(TRUE)
  /\ UNCHANGED <<fresh, cuts, restarts, mishaps, tables, disk, samba>>
PrepareFolder ==
  /\ Doing("create", "mkdir") /\ dir' = dir \cup {op.ask.f} /\ GoOn("build")
  /\ UNCHANGED <<tables, kernel, samba>>
WithoutFolder(f) ==
  folder' = [folder EXCEPT ![f] = None] /\ grant' = {g \in grant : g[1] # f}
UndoFolder ==
  /\ Doing("create", "undo") /\ WithoutFolder(op.ask.f) /\ EndWith(TRUE)
  /\ UNCHANGED <<fresh, cuts, restarts, mishaps, user, cap, disk, samba>>

(* RemoveEmptyLogicalFolder, then DeleteNASFolder; or it is made again.    *)
RemoveDirectory ==
  /\ Doing("delete", "work") /\ dir' = dir \ {op.ask.f} /\ GoOn("commit")
  /\ UNCHANGED <<tables, kernel, samba>>
DeleteNASFolder ==
  /\ Doing("delete", "commit") /\ WithoutFolder(op.ask.f) /\ GoOn("build")
  /\ UNCHANGED <<user, cap, disk, samba>>
RemakeDirectory ==
  /\ Doing("delete", "remake") /\ dir' = dir \cup {op.ask.f} /\ GoOn("build")
  /\ UNCHANGED <<tables, kernel, samba>>

Hard == IF op.ask.enforce THEN op.ask.quota ELSE 0
SetKernelQuota ==
  /\ Doing("manage", "work") /\ GoOn("commit")
  /\ kernel' = IF op.ask.enforce \/ folder[op.ask.f].hard > 0
               THEN [kernel EXCEPT ![op.ask.f] = Hard] ELSE kernel
  /\ UNCHANGED <<tables, dir, samba>>
UpdateManagementOf(owners) ==
  /\ Doing("manage", "commit")
  /\ folder' = [folder EXCEPT ![op.ask.f].quota = op.ask.quota, ![op.ask.f].hard = Hard]
  /\ grant' = {g \in grant : g[1] # op.ask.f} \cup
              Pairs({op.ask.f}, op.ask.users \cup owners)
  /\ GoOn("build") /\ UNCHANGED <<user, cap, disk, samba>>
UpdateNASFolderManagement == UpdateManagementOf({folder[op.ask.f].owner} \ {None})

SetNASUserQuota ==
  /\ Doing("quota", "work") /\ cap' = [cap EXCEPT ![op.ask.user] = op.ask.quota]
  /\ GoOn("build") /\ UNCHANGED <<user, grant, folder, disk, samba>>

TryReconcile ==
  /\ op = Idle /\ reconciling
  /\ op' = Work([do |-> "reconcile"], "stop", FALSE)
  /\ UNCHANGED <<tables, disk, samba, waiting, reconciling, history, budget>>
Reconcile ==
  Doing("reconcile", "work") /\ GoOn("build") /\ UNCHANGED <<tables, disk, samba>>

(* usersCollection creates a user without the mutex and without Samba.     *)
CreateUserWithAccess(u, fs) ==
  /\ user[u] = None /\ Administrators # {}
  /\ requests < MaxRequests /\ requests' = requests + 1
  /\ user' = [user EXCEPT ![u] = [admin |-> FALSE, on |-> TRUE]]
  /\ grant' = grant \cup Pairs(fs, {u}) /\ fresh' = fresh \cup {u}
  /\ UNCHANGED <<folder, cap, disk, samba, op, waiting, reconciling,
                 warned, cuts, restarts, mishaps>>
(* smb.install starts Samba with what its file says.                       *)
InstallSamba(by) ==
  /\ op = Idle /\ Administers(by) /\ conf # None /\ ~smbd
  /\ requests < MaxRequests /\ requests' = requests + 1 /\ smbd' = TRUE
  /\ UNCHANGED <<tables, disk, conf, late, astray, op, waiting, reconciling, history, mishaps>>
-----------------------------------------------------------------------------
(* Failures.                                                               *)

Mishap == mishaps < MaxMishaps /\ mishaps' = mishaps + 1
(* How a handler goes on after a failed call, or ends.                     *)
After(at) == IF op.ask.do \in {"access", "delete"} /\ at = "work" THEN "build"
             ELSE IF op.ask.do = "create" /\ at = "mkdir" THEN "undo"
             ELSE IF op.ask.do = "delete" /\ at = "commit" THEN "remake" ELSE "end"
Fail ==
  IF After(op.at) = "end"
  THEN /\ EndWith(TRUE) /\ UNCHANGED <<fresh, restarts>>
       /\ cuts' = IF op.at \in {"undo", "remake"} THEN cuts + 1 ELSE cuts
  ELSE op' = [op EXCEPT !.at = After(op.at)] /\ UNCHANGED <<waiting, reconciling, history, requests>>
CallFails ==
  /\ op # Idle /\ Mishap /\ Fail
  /\ UNCHANGED <<tables, disk, samba>>
(* The answer of smb.suspend is lost: the change is refused all the same.  *)
SuspendUnheard ==
  /\ op.at = "work" /\ Mishap /\ EndWith(TRUE)
  /\ UNCHANGED <<fresh, cuts, restarts, tables, disk, samba>>
PrepareUnheard ==
  /\ Doing("create", "mkdir") /\ Mishap /\ Fail /\ dir' = dir \cup {op.ask.f}
  /\ UNCHANGED <<tables, kernel, samba>>
(* testparm rejects the whole: the old file is put back.                   *)
TestFails ==
  /\ op.at = "test" /\ Mishap /\ conf' = op.old /\ EndWith(TRUE)
  /\ UNCHANGED <<fresh, cuts, restarts, tables, disk, smbd, late, astray>>

(* The client goes away during a call, or Core does: the helper goes on    *)
(* with what it was asked, while the mutex is free again.                  *)
InHelper == op.at \in {"stop", "empty", "write", "test"}
Ongoing == IF InHelper THEN {[at |-> op.at, model |-> op.model, old |-> op.old]} ELSE {}
CallAbandoned ==
  /\ InHelper /\ Mishap /\ EndWith(TRUE) /\ late' = late \cup Ongoing
  /\ UNCHANGED <<fresh, cuts, restarts, tables, disk, smbd, conf, astray>>
Becomes(c, rest) == late' = (late \ {c}) \cup rest
LateStep ==
  /\ \E c \in late :
       \/ /\ c.at = "stop" /\ conf # None /\ smbd' = FALSE /\ UNCHANGED conf
          /\ Becomes(c, {[c EXCEPT !.at = "empty"]})
       \/ c.at = "stop" /\ conf = None /\ UNCHANGED <<smbd, conf>> /\ Becomes(c, {})
       \/ c.at = "empty" /\ conf' = {} /\ UNCHANGED smbd /\ Becomes(c, {})
       \/ /\ c.at = "write" /\ conf' = c.model /\ UNCHANGED smbd
          /\ Becomes(c, {[c EXCEPT !.at = "test", !.old = conf]})
       \/ c.at = "test" /\ smbd' = TRUE /\ UNCHANGED conf /\ Becomes(c, {})
  /\ astray' = TRUE
  /\ UNCHANGED <<tables, disk, op, waiting, reconciling, history, budget>>
LateFails ==
  /\ Mishap
  /\ \E c \in late :
       Becomes(c, {}) /\ \/ UNCHANGED <<conf, astray>>
                         \/ c.at = "test" /\ conf' = c.old /\ astray' = TRUE
  /\ UNCHANGED <<tables, disk, smbd, op, waiting, reconciling, history, requests>>

Cut == cuts' = cuts + 1 /\ UNCHANGED <<fresh, warned>>
CoreDies ==
  /\ Mishap /\ op' = Idle /\ waiting' = {} /\ reconciling' = TRUE
  /\ Cut /\ late' = late \cup Ongoing
  /\ UNCHANGED <<tables, disk, smbd, conf, astray, restarts, requests>>
(* The helper suspends when it starts; a failure is only logged.           *)
Suspended == smbd' = FALSE /\ conf' = IF conf = None THEN None ELSE {}
HelperDies ==
  /\ Mishap /\ Suspended /\ late' = {} /\ restarts' = restarts + 1
  /\ IF InHelper
     THEN EndWith(TRUE) ELSE UNCHANGED <<op, waiting, reconciling, warned, requests>>
  /\ UNCHANGED <<tables, disk, astray, fresh, cuts>>
(* At boot Samba starts before the helper does.                            *)
Reboot ==
  /\ Mishap /\ op' = Idle /\ waiting' = {} /\ reconciling' = TRUE /\ Cut
  /\ Suspended \/ (smbd' = (conf # None) /\ UNCHANGED conf)
  /\ late' = {} /\ UNCHANGED <<tables, disk, astray, restarts, requests>>
-----------------------------------------------------------------------------
Known == {u \in Users : user[u] # None}
Asked(by) ==
  [do : {"access"}, by : {by}, user : Known, admin : BOOLEAN, on : BOOLEAN,
   folders : SUBSET Existing]
  \cup [do : {"create"}, by : {by}, f : FreeIds, owner : Known \cup {None}]
  \cup [do : {"delete"}, by : {by}, f : Existing]
  \cup [do : {"manage"}, by : {by}, f : Existing, quota : 0..MaxQuota, enforce : BOOLEAN,
        users : SUBSET Known]
  \cup [do : {"quota"}, by : {by}, user : Known, quota : 0..MaxQuota]
  \cup [do : {"apply"}, by : {by}]

Change ==
  \/ SetUserAccess \/ CreateNASFolder \/ CreateRefused \/ PrepareFolder \/ UndoFolder
  \/ RemoveDirectory \/ DeleteNASFolder \/ RemakeDirectory
  \/ SetKernelQuota \/ UpdateNASFolderManagement \/ SetNASUserQuota \/ Reconcile
Step ==
  \/ StopSamba \/ EmptyConfig \/ Change
  \/ BuildModel \/ WriteConfig \/ ReloadSamba
Request ==
  \/ \E by \in Administrators : \E r \in Asked(by) : Ask(r)
  \/ \E u \in Users, fs \in SUBSET Existing : CreateUserWithAccess(u, fs)
  \/ \E by \in Users : InstallSamba(by)
Failure ==
  \/ CallFails \/ SuspendUnheard \/ PrepareUnheard \/ TestFails
  \/ CallAbandoned \/ LateStep \/ LateFails \/ CoreDies \/ HelperDies \/ Reboot

SharesNext == Step \/ TryReconcile \/ (\E r \in waiting : Admit(r)) \/ Request \/ Failure
SharesFairness ==
  /\ WF_shareVars(Step) /\ WF_shareVars(TryReconcile)
  /\ WF_shareVars(\E r \in waiting : Admit(r))
SharesSpec == SharesInit /\ [][SharesNext]_shareVars /\ SharesFairness
-----------------------------------------------------------------------------
(* Properties                                                              *)

(* The variables have their types.  state.NASFolderRecord, smb.Share       *)
SharesTypeOK ==
  /\ user \in [Users -> {None} \cup [admin : BOOLEAN, on : BOOLEAN]]
  /\ grant \subseteq Folders \X Users
  /\ folder \in [Folders -> {None} \cup
       [owner : Users \cup {None}, quota : 0..MaxQuota, hard : 0..MaxQuota]]
  /\ cap \in [Users -> 0..MaxQuota] /\ kernel \in [Folders -> 0..MaxQuota]
  /\ dir \subseteq Folders /\ smbd \in BOOLEAN
  /\ conf # None => conf \subseteq [f : Folders, u : Users, w : BOOLEAN]
  /\ \A c \in late : c.at \in {"stop", "empty", "write", "test"}
  /\ op.at \in {"idle", "stop", "empty", "work", "mkdir", "undo", "commit", "remake",
                "build", "write", "test"}
  /\ reconciling \in BOOLEAN /\ warned \in BOOLEAN /\ astray \in BOOLEAN

(* What Samba serves, and what it would serve after a boot, are current    *)
(* grants of enabled users to existing folders, at every step of every     *)
(* change and whichever call, process or host fails in between, but for    *)
(* one case: once a call Core gave up on has changed Samba late, beside    *)
(* later changes, this holds again after the next suspension that has no   *)
(* such call beside it (smb.suspend, smb.apply).                           *)
Served == IF conf = None THEN {} ELSE conf
SharesAreGranted ==
  ~astray => \A e \in Served : e.f \in Existing /\ MayReach(e.f, e.u)

(* What can be written over Samba is limited by the kernel: to the quota   *)
(* of the folder, and all folders of a user to the user's own quota; with  *)
(* the same exception of a configuration that was written late.            *)
WrittenBy(u) == {f \in OwnedBy(u) : \E e \in Served : e.f = f /\ e.w}
QuotaIsEnforced ==
  ~astray =>
  /\ \A e \in Served : e.w /\ folder[e.f].quota > 0 => kernel[e.f] = folder[e.f].quota
  /\ \A u \in Users : cap[u] > 0 /\ WrittenBy(u) # {} =>
       /\ \A f \in WrittenBy(u) : kernel[f] > 0
       /\ MapThenSumSet(LAMBDA f : kernel[f], WrittenBy(u)) <= cap[u]

(* After a change that was reported as done, and once Core has reconciled, *)
(* every grant is served, but for users created since, until a call Core   *)
(* gave up on changes Samba late.                                          *)
Settled == op = Idle /\ ~reconciling /\ ~warned /\ conf # None
Complete == smbd /\ {e \in Shared : e.u \notin fresh} \subseteq conf
SharesAreComplete == Settled /\ restarts = 0 /\ ~astray => Complete

(* The owner of a private folder keeps access to it, whatever access is    *)
(* given to the user or to the folder (ADR-0035).                          *)
OwnerKeepsFolder ==
  \A f \in Existing : folder[f].owner # None => <<f, folder[f].owner>> \in grant

(* A folder without its directory is left only by a death of Core or by a  *)
(* clean-up that failed as well.                                           *)
FolderHasDirectory ==
  Cardinality({f \in Existing \ dir : op = Idle \/ op.ask.do \notin {"create", "delete"}
                                      \/ op.ask.f # f}) <= cuts

(* An enabled administrator remains, though two may demote each other.     *)
AdministratorRemains == Administrators # {}

(* Whoever waited for the mutex and is no administrator any more changes   *)
(* neither a user's access nor a folder.                                   *)
AccessByAdministrator ==
  [][\/ UNCHANGED <<folder, cap>> /\ \A u \in Known : user'[u] = user[u]
     \/ op # Idle /\ Administers(op.ask.by)]_shareVars

(* Core comes to the end of its reconciliation, unless a folder without a  *)
(* directory is in the way.                                                *)
Reconciled == reconciling ~> (~reconciling \/ ~(Existing \subseteq dir))

(* Samba serves neither more than is granted nor, after a change, less,    *)
(* but for what was written late.                                          *)
SharesAreRight == SharesTypeOK /\ SharesAreGranted /\ SharesAreComplete

(* Folders keep their owners and directories, and what Core has to restore *)
(* of them after a start is restored.                                      *)
FoldersAreKept == [](OwnerKeepsFolder /\ FolderHasDirectory) /\ Reconciled

(* Access is changed by administrators, and there always is one.           *)
AdministratorsDecide == []AdministratorRemains /\ AccessByAdministrator
=============================================================================
