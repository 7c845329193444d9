------------------------------- MODULE AIDevices ------------------------------
(***************************************************************************)
(* The AI Agent's GPU assignment (cmd/home-ai-core-updater/                *)
(* docker_ai_gpu_ops.go, docker_ai_gpu_images.go): the container is made   *)
(* anew with other devices, from the CPU or the GPU image of the same      *)
(* build, on the same /data directory.  Image 1 stands for the CPU image,  *)
(* image 2 for the GPU image; the container's devices follow its image.    *)
(***************************************************************************)
EXTENDS DockerSaga

VARIABLES
  cached,    (* the GPU image has been downloaded                          *)
  moved,     (* rollback: the old container was renamed                    *)
  ready      (* the NVIDIA driver knows the selected GPU                   *)

(* Both images exist.                                                      *)
ASSUME AgentAssumption == {1, 2} \subseteq Images

aiVars == <<cached, moved, ready>>

Agent == 1        (* /data of the agent *)
AI(action) == action /\ UNCHANGED aiVars
Mode(new) == [op |-> "apply", new |-> new, old |-> 1]

AskAI ==
  /\ UNCHANGED aiVars
  /\ \/ \E new \in {1, 2} : (new = 2 => ready) /\ Ask(Mode(new), "ai_checking")
     \/ Ask([Mode(2) EXCEPT !.op = "prepare"], "ai_preparing")
     \/ \E op \in {"start", "stop"} : Ask([Mode(1) EXCEPT !.op = op], "ai_controlling")

(* mapAIGPUsToUUIDs: the driver comes and goes.                            *)
DriverChanges ==
  /\ pc = "idle" /\ requests < MaxRequests /\ ready' = ~ready /\ requests' = requests + 1
  /\ UNCHANGED <<box, data, pc, ask, linked, row, removed, faults, crashes, cached, moved>>

(* prepareOptionalAIGPUImage: only for a running agent, the pinned image.  *)
PrepareGPU ==
  /\ Write("ai_preparing", Running("main") /\ cached' = TRUE, UNCHANGED cached, "ok", "error")
  /\ UNCHANGED <<data, moved, ready>>
NotPrepared == AI(Check("ai_preparing", Running("main"), "error", "error") /\ ~Running("main"))

(* The generic start and stop of a module.                                 *)
ControlAI ==
  AI(Command("ai_controlling", Exists("main"),
             IF ask.op = "stop" THEN Stopped("main") ELSE Started("main"), "ok", "error"))

-----------------------------------------------------------------------------
(* applyAIGPUSelection.                                                    *)

CheckAI ==
  AI(Check("ai_checking",
       /\ Running("main") /\ StageFree
       /\ box["main"].image # ask.new => (ask.new = 2 => cached),
       IF box["main"].image = ask.new THEN "ok" ELSE "ai_creating", "error"))
CreateAI ==
  AI(Command("ai_creating", ~Exists("candidate"),
             [box EXCEPT !["candidate"] = Created(ask.new, Agent)], "ai_stopping", "error"))
StopAI    == AI(Command("ai_stopping", Exists("main"), Stopped("main"), "ai_trying", "ai_abandoning"))
AbandonAI == AI(Command("ai_abandoning", TRUE, Removed("candidate"), "error", "error"))
TryAI     == AI(Command("ai_trying", Exists("candidate"), Started("candidate"), "ai_watching", "ai_undoing"))
WatchAI   == AI(Check("ai_watching", Running("candidate"), "ai_retiring", "ai_undoing"))

RetireAI ==
  /\ Command("ai_retiring", CanRename("main", "previous"), Renamed("main", "previous"),
             "ai_promoting", "ai_undoing")
  /\ moved' = (pc' = "ai_promoting") /\ UNCHANGED <<cached, ready>>
PromoteAI == AI(Command("ai_promoting", CanRename("candidate", "main"), Renamed("candidate", "main"),
                        "ai_clearing", "ai_undoing"))
ClearAI   == AI(Command("ai_clearing", Exists("previous"), Removed("previous"), "ok", "ok"))

(* The rollback goes on after each of its steps, whatever became of it.    *)
UndoAI ==
  AI(Command("ai_undoing", TRUE, Removed("candidate"),
             IF moved THEN "ai_renaming" ELSE "ai_relaunching",
             IF moved THEN "ai_renaming" ELSE "ai_relaunching"))
RenameAI ==
  /\ Command("ai_renaming", CanRename("previous", "main"), Renamed("previous", "main"),
             "ai_relaunching", "ai_relaunching")
  /\ moved' = FALSE /\ UNCHANGED <<cached, ready>>
RelaunchAI == AI(Command("ai_relaunching", Exists("main"), Started("main"), "error", "error"))

AIHelperDies == HelperDies /\ moved' = FALSE /\ UNCHANGED <<cached, ready>>

AIInit ==
  /\ SagaInit /\ row = 1 /\ moved = FALSE /\ cached \in BOOLEAN /\ ready \in BOOLEAN
AINext ==
  \/ AskAI \/ DriverChanges \/ PrepareGPU \/ NotPrepared \/ ControlAI
  \/ CheckAI \/ CreateAI \/ StopAI \/ AbandonAI \/ TryAI \/ WatchAI
  \/ RetireAI \/ PromoteAI \/ ClearAI \/ UndoAI \/ RenameAI \/ RelaunchAI
  \/ AI(Answered) \/ AI(CoreDies) \/ AIHelperDies
AISpec == AIInit /\ [][AINext]_<<sagaVars, aiVars>>

-----------------------------------------------------------------------------
AITypeOK == SagaTypeOK /\ cached \in BOOLEAN /\ moved \in BOOLEAN /\ ready \in BOOLEAN

(* "on failure, restart the original and preserve persistent data": a      *)
(* container with the CPU or the GPU image of the agent's build always     *)
(* exists under its name or as the previous one, whatever fails or dies;   *)
(* it is never only a candidate.                                           *)
AgentSurvives == \E n \in {"main", "previous"} : box[n].image \in {1, 2}

(* A single failed command never leaves two agents writing the same /data. *)
(* Two of them may: the rollback starts the old container even when it     *)
(* could not remove the candidate.  So may a death of the helper: a later  *)
(* start of the module does not look at the names left behind.             *)
OneAgent == faults <= 1 /\ crashes = 0 => OneWriter

(* An operation that succeeded after which the agent is not running was a  *)
(* stop: a mode change that reports success serves in the asked-for mode.  *)
AppliedIsServed ==
  pc = "ok" /\ ask.op = "apply" => Running("main") /\ box["main"].image = ask.new
==============================================================================
