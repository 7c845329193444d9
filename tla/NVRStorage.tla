------------------------------ MODULE NVRStorage ------------------------------
(***************************************************************************)
(* Moving the recorder's data to its assigned disk                         *)
(* (cmd/home-ai-core-updater/docker_module_storage.go): copy, verify,      *)
(* replace the data directory by a link, start, look from inside; or undo. *)
(* The disk may come and go, and so may its assignment, at any step.       *)
(*                                                                         *)
(* A directory is known by the number of the newest recording in it.       *)
(* Docker resolves the link when the container starts, and the container   *)
(* stays with what it has mounted.                                         *)
(***************************************************************************)
EXTENDS DockerSaga

CONSTANTS
  MaxRecordings,   (* bound: recordings made                               *)
  MaxMoves         (* bound: disks plugged, unplugged, assigned, released  *)

ASSUME NVRAssumption == MaxRecordings \in Nat /\ MaxMoves \in Nat

VARIABLES
  path,        (* what dataDir is: "dir", "link" or "none"                 *)
  place,       (* the directories                                          *)
  bound,       (* the one the container has mounted                        *)
  plugged,     (* the assigned filesystem is mounted                       *)
  assigned,    (* storage_purposes has it                                  *)
  recording,   (* the newest recording made                                *)
  seen,        (* the newest one made outside of a trial                   *)
  moves

nvrVars == <<path, place, bound, plugged, assigned, recording, seen, moves>>

Own    == "own"      (* the directory on the system disk, later .pre-storage-...  *)
Disk   == "disk"     (* .home-ai-nvr-data on the assigned disk                    *)
Under  == "under"    (* the same path while the disk is not mounted               *)
Places == {Own, Disk, Under}
Missing == 0
Empty   == 1
TornCopy == -1

TargetPlace == IF plugged THEN Disk ELSE Under

(* assignedNVRUUID and assignedNVRDestination; validateNVRDataLink.        *)
Located == assigned /\ plugged
Linked  == Located /\ path = "link" /\ place[Disk] # Missing

-----------------------------------------------------------------------------
Still == UNCHANGED nvrVars
NVRCommand(action) == action /\ Still

(* docker start: the bind's source must exist.                             *)
Source == CASE path = "dir" -> Own [] path = "link" -> TargetPlace [] OTHER -> "none"
Startable == Exists("main") /\ Source # "none" /\ place[Source] # Missing
NVRStart(step, can, ok, bad) ==
  /\ Command(step, can /\ (Startable \/ Running("main")), Started("main"), ok, bad)
  /\ bound' = IF box'["main"].up /\ ~Running("main") THEN Source ELSE bound
  /\ UNCHANGED <<path, place, plugged, assigned, recording, seen, moves>>

(* A write of the helper outside of Docker; in a directory it may be done  *)
(* and fail all the same (its owner cannot be set, cp reports an error).   *)
NVRWrite(step, can, newPath, newPlace, ok, bad) ==
  /\ pc = step /\ Frame /\ UNCHANGED <<box, data>>
  /\ \/ can /\ path' = newPath /\ place' = newPlace /\ pc' = ok /\ UNCHANGED faults
     \/ ~can /\ pc' = bad /\ UNCHANGED <<path, place, faults>>
     \/ can /\ place' \in {place, newPlace} /\ pc' = bad /\ Fault /\ UNCHANGED path
  /\ UNCHANGED <<bound, plugged, assigned, recording, seen, moves>>

Filled(p, content) == [place EXCEPT ![p] = content]

-----------------------------------------------------------------------------
(* Install and control, where they differ from those of other modules.     *)

AskNVR ==
  /\ Still
  /\ \/ row = 0 /\ Ask([op |-> "install", new |-> 1, old |-> 1], "inspecting")
     \/ row # 0 /\ \E op \in {"activate", "start", "restart", "stop", "remove"} :
          Ask([op |-> op, new |-> row, old |-> row],
              CASE op = "activate" -> "locating" [] op = "stop" -> "parking"
                [] op = "remove" -> "removing" [] OTHER -> "validating")

(* docker restart is a stop and a start.                                   *)
Validate == NVRCommand(Check("validating", Linked, IF ask.op = "restart" THEN "pausing" ELSE "waking", "error"))
Pause == NVRCommand(Command("pausing", Exists("main"), Stopped("main"), "waking", "error"))
Wake  == NVRStart("waking", TRUE, "ok", "error")
Park  == NVRCommand(Command("parking", Exists("main"), Stopped("main"), "ok", "error"))
Uninstall == NVRCommand(Command("removing", TRUE, Removed("main"), "ok", "error"))

(* installDockerModule, and before a new container prepareFreshNVRStorage: *)
(* data that lies anywhere on the way is never taken for nothing.          *)
InspectNVR == NVRCommand(Check("inspecting", ~Exists("main") \/ Linked,
                           IF Exists("main") THEN "waking" ELSE "preparing", "error"))
PrepareDisk ==
  \/ Linked /\ NVRCommand(Check("preparing", TRUE, "making", "error"))
  \/ ~Linked /\ NVRWrite("preparing",
       path = "none" /\ Located /\ place[TargetPlace] \in {Missing, Empty},
       path, Filled(TargetPlace, Empty), "linking", "error")
LinkFresh == NVRWrite("linking", Located /\ path = "none", "link", place, "making", "error")
MakeNVR == NVRCommand(Command("making", ~Exists("main"), [box EXCEPT !["main"] = Created(1, 1)],
                              "launching", "error"))
Launch  == NVRStart("launching", TRUE, "verifying", "dropping")
VerifyNVR == NVRCommand(Check("verifying", Running("main"), "ok", "dropping"))
DropNVR == NVRCommand(Command("dropping", TRUE, Removed("main"), "error", "error"))

InstallNVR == InspectNVR \/ PrepareDisk \/ LinkFresh \/ MakeNVR \/ Launch \/ VerifyNVR \/ DropNVR
ControlNVR == Validate \/ Pause \/ Wake \/ Park \/ Uninstall

-----------------------------------------------------------------------------
(* activateNVRStorage.                                                     *)

Locate ==
  NVRCommand(Check("locating",
    Exists("main") /\ Located /\ (IF Linked THEN Running("main") /\ bound = Disk ELSE path = "dir"),
    IF Linked THEN "ok" ELSE "claiming", "error"))
ClaimTarget ==
  NVRWrite("claiming", place[TargetPlace] = Missing, path, Filled(TargetPlace, Empty), "halting", "error")
(* A bug: the copy is made while the recorder runs.                        *)
HaltNot == NVRCommand(Check("halting", Exists("main"), "copying", "error"))
(* A stop that fails leaves everything as it is, stopped or not.           *)
HaltNVR == NVRCommand(Command("halting", Exists("main"), Stopped("main"), "copying", "error"))

(* cp -a creates what it does not find.                                    *)
BeginCopyNVR == NVRWrite("copying", TRUE, path, Filled(TargetPlace, TornCopy), "filling", "reviving")
EndCopyNVR ==
  NVRWrite("filling", place[TargetPlace] = TornCopy, path, Filled(TargetPlace, place[Own]), "comparing", "reviving")
(* verifyNVRCopy, then the disk is located again.                          *)
CompareNVR == NVRCommand(Check("comparing", place[TargetPlace] = place[Own] /\ Located, "setting_aside", "reviving"))

SetOwnAside == NVRWrite("setting_aside", TRUE, "none", place, "switching", "reviving")
Switch      == NVRWrite("switching", TRUE, "link", place, "checking", "putting_back")
CheckSwitch == NVRCommand(Check("checking", Linked, "trying", "unlinking"))
TryNVR      == NVRStart("trying", TRUE, "awaiting", "halting_again")
(* waitNVRMigrationHealth asks the container itself for its filesystem.    *)
AwaitNVR    == NVRCommand(Check("awaiting", Running("main") /\ Linked /\ bound = Disk, "ok", "halting_again"))

(* The deferred restoration: a directory cannot be renamed over a link that*)
(* could not be removed.                                                   *)
HaltAgain == NVRCommand(Command("halting_again", Exists("main"), Stopped("main"), "unlinking", "unlinking"))
Unlink    == NVRWrite("unlinking", TRUE, "none", place, "putting_back", "error")
PutOwnBack == NVRWrite("putting_back", path = "none", "dir", place, "reviving", "error")
ReviveNVR == NVRStart("reviving", TRUE, "error", "error")

ActivateStorage ==
  Locate \/ ClaimTarget \/ HaltNVR \/ BeginCopyNVR \/ EndCopyNVR \/ CompareNVR \/ SetOwnAside
    \/ Switch \/ CheckSwitch
    \/ TryNVR \/ AwaitNVR \/ HaltAgain \/ Unlink \/ PutOwnBack \/ ReviveNVR

-----------------------------------------------------------------------------
(* The recorder, and what happens to the disk.                             *)
Trial == pc \in {"awaiting", "halting_again"}
MakeRecording ==
  /\ Running("main") /\ recording < MaxRecordings + Empty
  /\ bound = Disk => plugged
  /\ recording' = recording + 1 /\ place' = Filled(bound, recording + 1)
  /\ seen' = IF Trial THEN seen ELSE recording + 1
  /\ UNCHANGED <<sagaVars, path, bound, plugged, assigned, moves>>

Move ==
  /\ moves < MaxMoves /\ moves' = moves + 1
  /\ \/ plugged' = ~plugged /\ UNCHANGED assigned
     \/ assigned' = ~assigned /\ UNCHANGED plugged
  /\ UNCHANGED <<sagaVars, path, place, bound, recording, seen>>

NVRInit ==
  /\ SagaInit
  /\ path = IF row = 0 THEN "none" ELSE "dir"
  /\ place = [p \in Places |-> IF p = Own /\ row # 0 THEN Empty ELSE Missing]
  /\ bound = Own /\ plugged = TRUE /\ assigned = TRUE
  /\ recording = Empty /\ seen = Empty /\ moves = 0

NVRNext ==
  \/ AskNVR \/ InstallNVR \/ ControlNVR \/ ActivateStorage \/ MakeRecording \/ Move
  \/ NVRCommand(Answered) \/ NVRCommand(CoreDies) \/ NVRCommand(HelperDies)
NVRSpec == NVRInit /\ [][NVRNext]_<<sagaVars, nvrVars>>

-----------------------------------------------------------------------------
(* Whatever fails, dies or is unplugged, a recorder that runs outside of a *)
(* trial shows every recording made so far outside of one: none is left    *)
(* behind in the directory set aside, none in a torn copy                  *)
(* (activateNVRStorage, prepareFreshNVRStorage).  Not promised once a copy *)
(* was left under the mount point: Docker may then start on it.            *)
RecordingsAreSeen ==
  Running("main") /\ ~Trial /\ place[Under] = Missing => place[bound] \in seen..recording

(* "NVR now uses assigned disk": the container itself has it mounted, the  *)
(* link leads there, and the original data are kept.                       *)
ActivatedIsOnDisk ==
  pc = "ok" /\ ask.op = "activate" =>
    Running("main") /\ bound = Disk /\ path = "link" /\ place[Disk] >= place[Own]
=============================================================================
