----------------------------- MODULE DockerHelper -----------------------------
(***************************************************************************)
(* The privileged helper's operations on the Docker containers of one      *)
(* generic module (cmd/home-ai-core-updater/docker_module_ops.go and       *)
(* docker_module_upgrade.go).  Every Docker command is one step: between   *)
(* two of them the helper may die, its caller may leave, and a command may *)
(* fail with or without its effect.                                        *)
(*                                                                         *)
(* Images stand for versions: a larger number is a newer manifest and its  *)
(* immutable image.  Home Assistant, Frigate and the NVR disk have paths   *)
(* of their own and are not modelled here.                                 *)
(***************************************************************************)
EXTENDS Naturals

CONSTANTS
  Images,          (* the module's images, numbered by version             *)
  MaxFaults        (* bound: Docker commands and registry writes that fail *)

ASSUME HelperAssumption == Images \subseteq Nat \ {0} /\ MaxFaults \in Nat

VARIABLES
  box,         (* the container under each name                            *)
  helper,      (* what the helper does next, "idle" when its lock is free  *)
  request,     (* the operation and images it works on                     *)
  linked,      (* its caller still waits for the answer                    *)
  cancelled,   (* the context of the operation is cancelled                *)
  answer,      (* what the caller has been told: "none", "ok" or "error"   *)
  faults

helperVars == <<box, helper, request, linked, cancelled, answer, faults>>

Names     == {"main", "candidate", "previous"}   (* ..., -upgrade-candidate, -upgrade-previous *)
Absent    == [image |-> 0, up |-> FALSE]
Container == [image : Images, up : BOOLEAN]
Created(image) == [image |-> image, up |-> FALSE]

Exists(n)  == box[n] # Absent
Running(n) == Exists(n) /\ box[n].up

Operations == {"install", "upgrade", "commit", "rollback", "start", "stop", "restart", "remove"}
Requests   == [op : Operations, image : Images \cup {0}, old : Images \cup {0}]
NoRequest  == [op |-> "stop", image |-> 0, old |-> 0]

(* The commands, named for what they do.                                   *)
Steps == {"idle", "ok", "error",
          "inspecting", "creating", "starting", "verifying", "discarding", "resuming",
          "controlling", "removing",
          "checking", "staging", "mounting", "unstaging", "stopping", "trying",
          "watching", "retiring", "promoting", "confirming",
          "clearing", "undoing", "restoring", "reviving",
          "pairing", "forgetting", "halting", "dropping", "renaming", "relaunching", "rechecking"}

-----------------------------------------------------------------------------
(* Docker.                                                                 *)

Started(n)   == [box EXCEPT ![n].up = TRUE]
Stopped(n)   == [box EXCEPT ![n].up = FALSE]
Removed(n)   == [box EXCEPT ![n] = Absent]
Renamed(m, n) == [box EXCEPT ![n] = box[m], ![m] = Absent]
CanRename(m, n) == Exists(m) /\ ~Exists(n)

Fault   == faults < MaxFaults /\ faults' = faults + 1
NoFault == UNCHANGED faults

Frame == UNCHANGED <<request, linked, cancelled, answer>>

(* One command.  It succeeds, and the helper goes on with ok.  Or it goes  *)
(* on with bad: the command cannot succeed, or Docker fails, or its context*)
(* is cancelled and the CLI killed; the last two may have had their effect.*)
Command(step, can, effect, ok, bad, killed) ==
  /\ helper = step
  /\ Frame
  /\ \/ can /\ ~killed /\ box' = effect /\ helper' = ok /\ NoFault
     \/ ~can /\ UNCHANGED box /\ helper' = bad /\ NoFault
     \/ can /\ box' \in {box, effect} /\ helper' = bad /\ ((killed /\ NoFault) \/ Fault)

(* A look at Docker, which changes nothing.                                *)
Check(step, holds, ok, bad, killed) == Command(step, holds, box, ok, bad, killed)

Detached == FALSE     (* context.Background() or context.WithoutCancel      *)

-----------------------------------------------------------------------------
(* docker.module.install: adopt a container of the same image or create it.*)

(* A bug: an interrupted installation is not adopted.                      *)
InspectFresh ==
  Check("inspecting", TRUE, IF ~Exists("main") THEN "creating" ELSE "error", "error", cancelled)

Inspect ==
  Check("inspecting", TRUE,
        IF ~Exists("main") THEN "creating"
        ELSE IF box["main"].image = request.image THEN "resuming" ELSE "error",
        "error", cancelled)

CreateMain ==
  Command("creating", ~Exists("main"), [box EXCEPT !["main"] = Created(request.image)],
          "starting", "error", cancelled)

StartMain  == Command("starting", Exists("main"), Started("main"), "verifying", "discarding", cancelled)
VerifyMain == Check("verifying", Running("main"), "ok", "discarding", cancelled)
Discard    == Command("discarding", TRUE, Removed("main"), "error", "error", Detached)
Resume     == Command("resuming", Exists("main"), Started("main"), "ok", "error", cancelled)

Installing == Inspect \/ CreateMain \/ StartMain \/ VerifyMain \/ Discard \/ Resume

(* docker.module.start, stop, restart and remove.                          *)
Control ==
  Command("controlling", Exists("main"),
          IF request.op = "stop" THEN Stopped("main") ELSE Started("main"), "ok", "error", cancelled)

Remove == Command("removing", TRUE, Removed("main"), "ok", "error", cancelled)

-----------------------------------------------------------------------------
(* docker.module.upgrade: stage a candidate, stop the old container, try   *)
(* the candidate on the same data, swap the names.                         *)

CheckSource ==
  Check("checking",
        Running("main") /\ box["main"].image = request.old /\ ~Exists("candidate") /\ ~Exists("previous"),
        "staging", "error", cancelled)

(* A bug: docker run instead of docker create.                             *)
StageRunning ==
  Command("staging", ~Exists("candidate"),
          [box EXCEPT !["candidate"] = [image |-> request.image, up |-> TRUE]],
          "mounting", "error", cancelled)

StageCandidate ==
  Command("staging", ~Exists("candidate"), [box EXCEPT !["candidate"] = Created(request.image)],
          "mounting", "error", cancelled)

VerifyMount == Check("mounting", Exists("candidate"), "stopping", "unstaging", cancelled)
Unstage     == Command("unstaging", TRUE, Removed("candidate"), "error", "error", Detached)

(* From here on the caller's context no longer matters.                    *)
StopOld        == Command("stopping", Exists("main"), Stopped("main"), "trying", "unstaging", Detached)
StartCandidate == Command("trying", Exists("candidate"), Started("candidate"), "watching", "clearing", Detached)
AwaitHealthy   == \E healthy \in BOOLEAN : Check("watching", healthy, "retiring", "clearing", Detached)

(* A bug: the old container is removed as soon as the candidate is healthy.*)
RetireByRemoval ==
  Command("retiring", CanRename("main", "previous"), Removed("main"), "promoting", "clearing", Detached)

RetireOld ==
  Command("retiring", CanRename("main", "previous"), Renamed("main", "previous"),
          "promoting", "clearing", Detached)

Promote ==
  Command("promoting", CanRename("candidate", "main"), Renamed("candidate", "main"),
          "confirming", "undoing", Detached)

Confirm == Check("confirming", Running("main"), "ok", "halting", Detached)

(* recoverOld goes on after a failed command.                              *)
Clear   == Command("clearing", TRUE, Removed("candidate"), "reviving", "reviving", Detached)
Undo    == Command("undoing", TRUE, Removed("candidate"), "restoring", "restoring", Detached)
Restore == Command("restoring", CanRename("previous", "main"), Renamed("previous", "main"),
                   "reviving", "reviving", Detached)
Revive  == Command("reviving", Exists("main"), Started("main"), "error", "error", Detached)

Upgrading ==
  \/ CheckSource \/ StageCandidate \/ VerifyMount \/ Unstage \/ StopOld \/ StartCandidate
  \/ AwaitHealthy \/ RetireOld \/ Promote \/ Confirm
  \/ Clear \/ Undo \/ Restore \/ Revive

-----------------------------------------------------------------------------
(* docker.module.upgrade.commit and .rollback, which verify both images    *)
(* first; a failed swap rolls back too, detached from its caller.          *)

Paired == box["main"].image = request.image /\ box["previous"].image = request.old

VerifyPair ==
  Check("pairing", Paired, IF request.op = "commit" THEN "forgetting" ELSE "halting", "error", cancelled)

Forget == Command("forgetting", Exists("previous") /\ ~Running("previous"), Removed("previous"),
                  "ok", "error", cancelled)

Leaving == IF request.op = "rollback" THEN cancelled ELSE Detached
Outcome == IF request.op = "rollback" THEN "ok" ELSE "error"

Halt     == Command("halting", Exists("main"), Stopped("main"), "dropping", "error", Leaving)
Drop     == Command("dropping", Exists("main") /\ ~Running("main"), Removed("main"), "renaming", "error", Leaving)
Rename   == Command("renaming", CanRename("previous", "main"), Renamed("previous", "main"),
                    "relaunching", "error", Leaving)
Relaunch == Command("relaunching", Exists("main"), Started("main"), "rechecking", "error", Leaving)
Recheck  == \E healthy \in BOOLEAN : Check("rechecking", healthy, Outcome, "error", Leaving)

Settling == VerifyPair \/ Forget \/ Halt \/ Drop \/ Rename \/ Relaunch \/ Recheck

-----------------------------------------------------------------------------
(* One connection: a request, its answer, and the end of either side.      *)

FirstStep(op) ==
  CASE op = "install" -> "inspecting"
    [] op = "upgrade" -> "checking"
    [] op \in {"commit", "rollback"} -> "pairing"
    [] op = "remove" -> "removing"
    [] OTHER -> "controlling"

HelperInit ==
  /\ box = [n \in Names |-> Absent]
  /\ helper = "idle" /\ request = NoRequest
  /\ linked = FALSE /\ cancelled = FALSE /\ answer = "none"
  /\ faults = 0

(* The caller asks; a helper that is still busy for an earlier caller      *)
(* refuses (moduleOperationMu.TryLock).                                    *)
Ask(r) ==
  /\ IF helper = "idle"
     THEN /\ helper' = FirstStep(r.op) /\ request' = r
          /\ linked' = TRUE /\ cancelled' = FALSE /\ answer' = "none"
     ELSE answer' = "error" /\ UNCHANGED <<helper, request, linked, cancelled>>
  /\ UNCHANGED <<box, faults>>

Reply ==
  /\ helper \in {"ok", "error"}
  /\ helper' = "idle" /\ linked' = FALSE
  /\ answer' = IF linked THEN helper ELSE answer
  /\ UNCHANGED <<box, request, cancelled, faults>>

(* The read of the connection returns: the operation's context ends.       *)
NoticeHangUp ==
  /\ helper # "idle" /\ ~linked /\ ~cancelled
  /\ cancelled' = TRUE
  /\ UNCHANGED <<box, helper, request, linked, answer, faults>>

(* The helper process ends between two commands; the containers stay.      *)
HelperDies ==
  /\ helper # "idle"
  /\ helper' = "idle" /\ linked' = FALSE /\ cancelled' = FALSE
  /\ answer' = IF linked THEN "error" ELSE answer
  /\ UNCHANGED <<box, request, faults>>

Working == Installing \/ Control \/ Remove \/ Upgrading \/ Settling \/ Reply

HelperTypeOK ==
  /\ box \in [Names -> Container \cup {Absent}]
  /\ helper \in Steps
  /\ request \in Requests
  /\ linked \in BOOLEAN /\ cancelled \in BOOLEAN
  /\ answer \in {"none", "ok", "error"}
  /\ faults \in 0..MaxFaults
=============================================================================
