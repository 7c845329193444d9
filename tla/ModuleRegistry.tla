---------------------------- MODULE ModuleRegistry ----------------------------
(***************************************************************************)
(* The life of one installed module: modules.Registry keeps its row in     *)
(* SQLite and calls the privileged helper, which owns its containers.      *)
(* Install, upgrade, control and remove are sagas over the two.            *)
(*                                                                         *)
(* submitModuleJob admits one module job at a time and Registry.mu one     *)
(* operation, so the core side is a single program counter.  Requests that *)
(* are refused before anything changes are not shown.                      *)
(***************************************************************************)
EXTENDS DockerHelper, FiniteSets

CONSTANTS
  MaxRejects,      (* bound: upgraded manifests the store refuses          *)
  MaxHangUps,      (* bound: jobs cancelled and calls timed out            *)
  MaxCrashes,      (* bound: Core processes that die                       *)
  MaxDeaths        (* bound: helper processes that die                     *)

ASSUME RegistryAssumption == {MaxRejects, MaxHangUps, MaxCrashes, MaxDeaths} \subseteq Nat

VARIABLES
  row,         (* the module's row in the modules table                    *)
  core,        (* where the operation of the registry is                   *)
  task,        (* the request it made first                                *)
  removing,    (* removal was requested since the last install (history)   *)
  rejects, hangups, crashes, deaths

budget == <<rejects, hangups, crashes, deaths>>
vars == <<helperVars, row, core, task, removing, budget>>

NoRow == [image |-> 0, status |-> "none"]
Row   == [image : Images, status : {"registered", "enabled", "disabled"}]

Init ==
  /\ HelperInit
  /\ row = NoRow /\ core = "idle" /\ task = NoRequest /\ removing = FALSE
  /\ rejects = 0 /\ hangups = 0 /\ crashes = 0 /\ deaths = 0

-----------------------------------------------------------------------------
(* The first half of every operation: read the row, call the helper.       *)

Call(r) == core = "idle" /\ core' = "calling" /\ task' = r /\ Ask(r)

(* A new module is recorded before the helper acts; the same manifest may  *)
(* be tried again as long as it has not been enabled.                      *)
InstallManifest(i) ==
  /\ \/ row = NoRow /\ row' = [image |-> i, status |-> "registered"]
     \/ row = [image |-> i, status |-> "registered"] /\ UNCHANGED row
  /\ removing' = FALSE
  /\ Call([op |-> "install", image |-> i, old |-> 0])
  /\ UNCHANGED budget

UpgradeManifest(i) ==
  /\ row.status = "enabled" /\ i > row.image
  /\ Call([op |-> "upgrade", image |-> i, old |-> row.image])
  /\ UNCHANGED <<row, removing, budget>>

ControlModule(op) ==
  /\ row # NoRow
  /\ Call([op |-> op, image |-> 0, old |-> 0])
  /\ UNCHANGED <<row, removing, budget>>

RemoveModule ==
  /\ row # NoRow
  /\ removing' = TRUE
  /\ Call([op |-> "remove", image |-> 0, old |-> 0])
  /\ UNCHANGED <<row, budget>>

-----------------------------------------------------------------------------
(* The second half: the answer, and what is recorded.                      *)

Answered(result) == core = "calling" /\ answer = result

(* The error is noted in the row, whose status stays.                      *)
Refused ==
  /\ Answered("error")
  /\ core' = "idle"
  /\ UNCHANGED <<helperVars, row, task, removing, budget>>

After(op) ==
  CASE op = "remove" -> NoRow
    [] op = "stop" -> [row EXCEPT !.status = "disabled"]
    [] OTHER -> [row EXCEPT !.status = "enabled"]

(* The final write of install, control and remove, which may fail.         *)
Record ==
  /\ Answered("ok") /\ task.op # "upgrade"
  /\ core' = "idle"
  /\ \/ row' = After(task.op) /\ NoFault
     \/ UNCHANGED row /\ Fault
  /\ UNCHANGED <<box, helper, request, linked, cancelled, answer, task, removing, budget>>

(* A bug: the failed write is reported and the swap stays.                 *)
PersistOrGiveUp ==
  /\ Answered("ok") /\ task.op = "upgrade"
  /\ \/ /\ row' = [row EXCEPT !.image = task.image]
        /\ core' = "committing" /\ UNCHANGED rejects
     \/ /\ rejects < MaxRejects /\ rejects' = rejects + 1
        /\ core' = "idle" /\ UNCHANGED row
  /\ UNCHANGED <<helperVars, task, removing, hangups, crashes, deaths>>

(* The new manifest replaces the old one, the status is not touched; or    *)
(* the store refuses it and the swap has to be undone.                     *)
PersistUpgrade ==
  /\ Answered("ok") /\ task.op = "upgrade"
  /\ \/ /\ row' = [row EXCEPT !.image = task.image]
        /\ core' = "committing" /\ UNCHANGED rejects
     \/ /\ rejects < MaxRejects /\ rejects' = rejects + 1
        /\ core' = "compensating" /\ UNCHANGED row
  /\ UNCHANGED <<helperVars, task, removing, hangups, crashes, deaths>>

Commit ==
  /\ core = "committing"
  /\ core' = "cleaning"
  /\ Ask([task EXCEPT !.op = "commit"])
  /\ UNCHANGED <<row, task, removing, budget>>

Rollback ==
  /\ core = "compensating"
  /\ core' = "undoing"
  /\ Ask([task EXCEPT !.op = "rollback"])
  /\ UNCHANGED <<row, task, removing, budget>>

(* A failed commit is a warning, a failed rollback an error of the job.    *)
Finish ==
  /\ core \in {"cleaning", "undoing"} /\ answer # "none"
  /\ core' = "idle"
  /\ UNCHANGED <<helperVars, row, task, removing, budget>>

-----------------------------------------------------------------------------
(* The caller of the helper goes away: its job is cancelled or its time is *)
(* up, or the Core process dies.                                           *)

Abandon ==
  /\ core' = "idle"
  /\ linked' = FALSE
  /\ UNCHANGED <<box, helper, request, cancelled, answer, faults, row, task, removing>>

HangUp ==
  /\ core \in {"calling", "cleaning", "undoing"} /\ answer = "none"
  /\ hangups < MaxHangUps /\ hangups' = hangups + 1
  /\ Abandon
  /\ UNCHANGED <<rejects, crashes, deaths>>

CoreDies ==
  /\ core # "idle"
  /\ crashes < MaxCrashes /\ crashes' = crashes + 1
  /\ Abandon
  /\ UNCHANGED <<rejects, hangups, deaths>>

HelperStep == (Working \/ NoticeHangUp) /\ UNCHANGED <<row, core, task, removing, budget>>

HelperCrash ==
  /\ deaths < MaxDeaths /\ deaths' = deaths + 1
  /\ HelperDies
  /\ UNCHANGED <<row, core, task, removing, rejects, hangups, crashes>>

CoreStep == Refused \/ Record \/ PersistUpgrade \/ Commit \/ Rollback \/ Finish

Next ==
  \/ \E i \in Images : InstallManifest(i) \/ UpgradeManifest(i)
  \/ \E op \in {"start", "stop", "restart"} : ControlModule(op)
  \/ RemoveModule
  \/ CoreStep \/ HelperStep
  \/ HangUp \/ CoreDies \/ HelperCrash

Spec == Init /\ [][Next]_vars

(* Both processes run, and someone retries an installation that is not     *)
(* finished (the job engine requeues an interrupted one, the error text    *)
(* tells the administrator to).                                            *)
RetryingSpec ==
  /\ Spec
  /\ WF_vars(CoreStep) /\ WF_vars(HelperStep)
  /\ \A i \in Images : SF_vars(InstallManifest(i) /\ row # NoRow)

-----------------------------------------------------------------------------
TypeOK ==
  /\ HelperTypeOK
  /\ row \in Row \cup {NoRow}
  /\ core \in {"idle", "calling", "committing", "cleaning", "compensating", "undoing"}
  /\ task \in Requests /\ removing \in BOOLEAN
  /\ rejects \in 0..MaxRejects /\ hangups \in 0..MaxHangUps
  /\ crashes \in 0..MaxCrashes /\ deaths \in 0..MaxDeaths

Quiet == core = "idle" /\ helper = "idle"

Undisturbed == hangups = 0 /\ crashes = 0 /\ deaths = 0 /\ faults = 0

(* Every variable has its type.  Between operations the row tells what     *)
(* Docker runs, and an upgrade has left nothing behind - whether its       *)
(* candidate was healthy or not and whether the store accepted the new     *)
(* manifest or the swap was undone.                                        *)
RowTellsContainers ==
  /\ TypeOK
  /\ Quiet /\ Undisturbed =>
    /\ ~Exists("candidate") /\ ~Exists("previous")
    /\ row = NoRow => ~Exists("main")
    /\ row.status = "enabled"  => box["main"] = [image |-> row.image, up |-> TRUE]
    /\ row.status = "disabled" => box["main"] = [image |-> row.image, up |-> FALSE]

(* The module's data directory is mounted by all of its containers: never  *)
(* do two of them run at once (upgradeDockerModule creates the candidate   *)
(* and starts it only once the old container is stopped).                  *)
DataExclusive == \A m, n \in Names : Running(m) /\ Running(n) => m = n

(* Whichever jobs are cancelled or time out and whenever Core dies, while  *)
(* Docker obeys and the helper lives.                                      *)
OneOwnerOfData == faults = 0 /\ deaths = 0 => DataExclusive

(* Until its removal is requested, a module whose row says it was          *)
(* installed has a container of the recorded image under some name: an     *)
(* upgrade that fails, is abandoned or crashes at any step can be undone.  *)
RecordedImageSurvives ==
  row.status \in {"enabled", "disabled"} /\ ~removing =>
    \E n \in Names : box[n].image = row.image

(* "retry the same manifest": an interrupted installation that is retried  *)
(* ends enabled, unless the module is removed or stopped meanwhile.        *)
InstallConverges == row.status = "registered" ~> row.status # "registered"

(* docs/MODULE_MANAGEMENT_PAGES.md:41-43: an upgrade keeps the previous    *)
(* container until the new manifest is recorded and otherwise restores it. *)
(* An upgrade whose job is cancelled must not end between the two.         *)
SwapIsSettled ==
  Quiet /\ crashes = 0 /\ deaths = 0 /\ faults = 0 => ~Exists("previous")
=============================================================================
