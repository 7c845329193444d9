------------------------- MODULE HomeAssistantUpgrade -------------------------
(***************************************************************************)
(* Home Assistant in the helper (cmd/home-ai-core-updater/                 *)
(* docker_homeassistant.go, docker_homeassistant_upgrade.go).  A candidate *)
(* gets a COPY of the stopped container's configuration, and active.json   *)
(* names the committed image and its directory.  There is no journal: the  *)
(* containers left under the staging names refuse every further operation  *)
(* until they are dealt with.                                              *)
(*                                                                         *)
(* Each container has a directory of its own, so a directory stands for    *)
(* the container's ID, which survives a rename.                            *)
(***************************************************************************)
EXTENDS DockerSaga

VARIABLES
  active,    (* active.json: the committed image and its directory         *)
  old,       (* upgrade, rollback: the container to go back to             *)
  fresh      (* the candidate's directory, 0 until its ID is known         *)

haVars == <<active, old, fresh>>

NoRecord == [image |-> 0, dir |-> 0]
Of(n)    == [image |-> box[n].image, dir |-> box[n].dir]
IdOf(d)  == {n \in Names : Exists(n) /\ box[n].dir = d}

HA(action) == action /\ UNCHANGED haVars

AskHA ==
  /\ UNCHANGED haVars
  /\ \/ \E new \in Images :
          /\ row # 0 /\ new > row
          /\ \E d \in Dirs : data[d] = 0      (* bound: one more copy *)
          /\ Ask([op |-> "upgrade", new |-> new, old |-> row], "ha_checking")
     \/ \E op \in {"start", "stop", "restart", "remove"} :
          row # 0 /\ Ask([op |-> op, new |-> row, old |-> row], "ha_controlling")
     \/ \E new \in Images :
          row = 0 /\ Ask([op |-> "install", new |-> new, old |-> new], "ha_adopting")

(* haCheckPort: a container that runs may not be listening yet.            *)
PortFree(step, ok, bad) ==
  \/ HA(Check(step, TRUE, ok, bad))
  \/ (\E n \in Names : Running(n)) /\ HA(Check(step, FALSE, ok, bad))

(* haWriteState: a temporary file, renamed into place, then synced.        *)
Record(step, record, ok, bad) ==
  /\ Write(step, active' = record, UNCHANGED active, ok, bad)
  /\ UNCHANGED <<data, old, fresh>>

-----------------------------------------------------------------------------
(* installHomeAssistant.                                                   *)

AdoptHA ==
  \/ /\ Exists("main")
     /\ HA(Check("ha_adopting", box["main"].image = ask.new /\ active = Of("main"),
                 IF Running("main") THEN "ha_verifying" ELSE "ha_resuming", "error"))
  \/ ~Exists("main") /\ HA(Check("ha_adopting", StageFree, "ha_port", "error"))
ResumePort == PortFree("ha_resuming", "ha_starting", "error")
Resume == HA(Command("ha_starting", Exists("main"), Started("main"), "ha_verifying", "error"))
Verified == HA(Check("ha_verifying", Running("main"), "ok", "error"))

InstallPort == PortFree("ha_port", "ha_directory", "error")

(* A directory without a record is not adopted; a record fixes the image.  *)
MakeDirectory ==
  \/ /\ pc = "ha_directory" /\ active = NoRecord /\ data[1] = 0
     /\ data' = [data EXCEPT ![1] = 1]
     /\ \/ pc' = "ha_recording" /\ UNCHANGED faults
        \/ pc' = "error" /\ Fault
     /\ Frame /\ UNCHANGED <<box, haVars>>
  \/ active = NoRecord /\ data[1] # 0 /\ HA(Check("ha_directory", FALSE, "error", "error"))
  \/ active # NoRecord /\ HA(Check("ha_directory", active.image = ask.new, "ha_creating", "error"))
RecordFresh == Record("ha_recording", [image |-> ask.new, dir |-> 1], "ha_creating", "error")
CreateHA ==
  HA(Command("ha_creating", ~Exists("main"), [box EXCEPT !["main"] = Created(active.image, active.dir)],
             "ha_launching", "error"))
LaunchHA == HA(Command("ha_launching", Exists("main"), Started("main"), "ha_watching", "ha_giving_up"))
WatchHA  == HA(Check("ha_watching", Running("main"), "ok", "ha_giving_up"))
GiveUp   == HA(Command("ha_giving_up", Exists("main"), Stopped("main"), "ha_clearing", "error"))
ClearHA  == HA(Command("ha_clearing", Exists("main"), Removed("main"), "error", "error"))

InstallHA == AdoptHA \/ ResumePort \/ Resume \/ Verified \/ InstallPort \/ MakeDirectory \/ RecordFresh
               \/ CreateHA \/ LaunchHA \/ WatchHA \/ GiveUp \/ ClearHA

(* controlHomeAssistant.                                                   *)
ControlHA ==
  \/ ~Exists("main") /\ HA(Check("ha_controlling", ask.op = "remove", "ok", "error"))
  \/ /\ Exists("main")
     /\ HA(Check("ha_controlling",
          /\ ask.op # "stop" => StageFree
          /\ ask.op \in {"start", "restart"} => active = Of("main"),
          CASE ask.op = "stop" -> "ha_stopping" [] ask.op = "remove" -> "ha_halting"
            [] OTHER -> IF Running("main") THEN "ha_starting" ELSE "ha_resuming",
          "error"))
StopHA   == HA(Command("ha_stopping", Exists("main"), Stopped("main"), "ok", "error"))
HaltHA   == HA(Command("ha_halting", Exists("main"), Stopped("main"), "ha_removing", "error"))
RemoveHA == HA(Command("ha_removing", Exists("main"), Removed("main"), "ok", "error"))

-----------------------------------------------------------------------------
(* upgradeHomeAssistant; a failure after the old container was told to stop*)
(* goes to haRestorePrevious.                                              *)

CheckHA ==
  /\ Check("ha_checking",
       Running("main") /\ box["main"].image = ask.old /\ active = Of("main") /\ StageFree,
       "ha_quieting", "error")
  /\ old' = Of("main") /\ fresh' = 0 /\ UNCHANGED active
Quiet == HA(Command("ha_quieting", Exists("main"), Stopped("main"), "ha_copying", "ha_restoring"))
Copy ==
  \E d \in {d \in Dirs : data[d] = 0 /\ \A c \in Dirs : c < d => data[c] # 0} :
    /\ Write("ha_copying", data' = [data EXCEPT ![d] = data[old.dir]], UNCHANGED data,
             "ha_staging", "ha_restoring")
    /\ UNCHANGED haVars
Newest == CHOOSE d \in Dirs : data[d] # 0 /\ \A c \in Dirs : c > d => data[c] = 0

(* The backup record, the port and the creation; the candidate's ID is     *)
(* known only once it has been inspected.                                  *)
Stage ==
  HA(Command("ha_staging", ~Exists("candidate"),
             [box EXCEPT !["candidate"] = Created(ask.new, Newest)], "ha_identifying", "ha_restoring"))
Identify ==
  /\ Check("ha_identifying", Of("candidate") = [image |-> ask.new, dir |-> Newest],
           "ha_trying", "ha_restoring")
  /\ fresh' = IF pc' = "ha_trying" THEN Newest ELSE fresh
  /\ UNCHANGED <<active, old>>
TryHA     == HA(Command("ha_trying", Exists("candidate"), Started("candidate"), "ha_proving", "ha_restoring"))
ProveHA   == HA(Check("ha_proving", Running("candidate"), "ha_retiring", "ha_restoring"))
(* A bug: the old container is removed as soon as the candidate is healthy.*)
RetireForGood == HA(Command("ha_retiring", Exists("main"), Removed("main"), "ha_promoting", "ha_restoring"))
RetireHA  == HA(Command("ha_retiring", CanRename("main", "previous"), Renamed("main", "previous"),
                        "ha_promoting", "ha_restoring"))
PromoteHA == HA(Command("ha_promoting", CanRename("candidate", "main"), Renamed("candidate", "main"),
                        "ha_confirming", "ha_restoring"))
ConfirmHA == HA(Check("ha_confirming", Running("main"), "ok", "ha_restoring"))

UpgradeHA == CheckHA \/ Quiet \/ Copy \/ Stage \/ Identify \/ TryHA \/ ProveHA \/ RetireHA \/ PromoteHA
               \/ ConfirmHA

(* Core's second request works on the isolated pair under both names.      *)
SecondHA == HA(Registered("ha_pairing"))
Pair ==
  /\ Check("ha_pairing",
       /\ box["main"].image = ask.new /\ box["previous"].image = ask.old
       /\ box["main"].dir # box["previous"].dir /\ ~Running("previous"),
       IF ask.op = "commit" THEN "ha_settling" ELSE "ha_restoring", "error")
  /\ old' = Of("previous") /\ fresh' = box["main"].dir /\ UNCHANGED active
Settle   == HA(Check("ha_settling", Running("main"), "ha_committing", "error"))
CommitHA == Record("ha_committing", Of("main"), "ha_dropping_old", "error")
DropOld  == HA(Command("ha_dropping_old", Exists("previous"), Removed("previous"), "ok", "error"))

(* haRestorePrevious: by container ID, the candidate first.                *)
Restore ==
  \/ fresh = 0 /\ HA(Check("ha_restoring", TRUE, "ha_renaming", "error"))
  \/ \E n \in IdOf(fresh) : HA(Command("ha_restoring", TRUE, Stopped(n), "ha_dropping", "error"))
DropNew == \E n \in IdOf(fresh) : HA(Command("ha_dropping", TRUE, Removed(n), "ha_renaming", "error"))
RenameOld ==
  \E n \in IdOf(old.dir) :
    \/ n = "main" /\ HA(Check("ha_renaming", TRUE, "ha_relaunching", "error"))
    \/ n # "main" /\ HA(Command("ha_renaming", CanRename(n, "main"), Renamed(n, "main"),
                                "ha_relaunching", "error"))
Relaunch == HA(Command("ha_relaunching", Exists("main"), Started("main"), "ha_reproving", "error"))
Reprove  == HA(Check("ha_reproving", Running("main"), "ha_rerecording", "error"))
Rerecord == Record("ha_rerecording", old, IF ask.op = "rollback" THEN "ok" ELSE "error", "error")

FinishHA == SecondHA \/ Pair \/ Settle \/ CommitHA \/ DropOld \/ Restore \/ DropNew \/ RenameOld
              \/ Relaunch \/ Reprove \/ Rerecord

HAInit == SagaInit /\ active = [image |-> row, dir |-> row] /\ old = NoRecord /\ fresh = 0
HANext ==
  \/ AskHA \/ InstallHA \/ ControlHA \/ StopHA \/ HaltHA \/ RemoveHA \/ UpgradeHA \/ FinishHA
  \/ HA(Migrate) \/ HA(Answered) \/ HA(CoreDies) \/ HA(HelperDies)
HASpec == HAInit /\ [][HANext]_<<sagaVars, haVars>>

-----------------------------------------------------------------------------
Records == [image : Images \cup {0}, dir : Dirs \cup {0}]
HATypeOK == SagaTypeOK /\ active \in Records /\ old \in Records /\ fresh \in Dirs \cup {0}

(* With no operation under way and nothing under the staging names, the    *)
(* container is the one active.json names and the one Core has registered, *)
(* so it can be started, restarted and upgraded.                           *)
ActiveIsTrue ==
  pc = "idle" /\ StageFree /\ Exists("main") /\ active # NoRecord =>
    active = Of("main") /\ row \in {0, box["main"].image}
==============================================================================
