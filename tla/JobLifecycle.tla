---------------------------- MODULE JobLifecycle ----------------------------
(***************************************************************************)
(* What the job API promises about one job row, whatever the workers, the  *)
(* HTTP callers and the process do: the statuses of ADR-0007 (queued,      *)
(* running, cancel_requested, cancelled, succeeded, failed), the moves     *)
(* allowed between them, and how many times a handler may be started.      *)
(*                                                                         *)
(* This is the abstract specification; JobEngine implements it.            *)
(***************************************************************************)
EXTENDS Naturals

CONSTANTS
  Jobs,         (* the job ids ever generated by newID                     *)
  InstallJobs   (* those whose type is module.install: the only type that  *)
                (* is replayed after an interruption                       *)

VARIABLES
  status,       (* status[j]: "none" before CreateJob, "deleted" once the  *)
                (* row is gone                                             *)
  starts        (* starts[j]: how many times j was handed to its handler   *)

lifecycleVars == <<status, starts>>

Terminal == {"cancelled", "succeeded", "failed"}
Live     == {"running", "cancel_requested"}
Statuses == {"none", "queued", "deleted"} \cup Live \cup Terminal

(* Started and finished at most once, a replayed installation excepted.    *)
MayStart(j) == starts[j] = 0 \/ j \in InstallJobs

Move(j, from, to) ==
  /\ status[j] \in from
  /\ status' = [status EXCEPT ![j] = to]
  /\ UNCHANGED starts

Create(j)   == Move(j, {"none"}, "queued")
Claim(j)    == MayStart(j) /\ Move(j, {"queued"}, "running")
CancelQueued(j)  == Move(j, {"queued"}, "cancelled")
CancelRunning(j) == Move(j, {"running"}, "cancel_requested")
Cancelled(j)     == Move(j, {"cancel_requested"}, "cancelled")
Succeed(j)  == starts[j] > 0 /\ Move(j, Live, "succeeded")
Fail(j)     == Move(j, Live, "failed")

Start(j) ==
  /\ status[j] \in Live
  /\ MayStart(j)
  /\ starts' = [starts EXCEPT ![j] = @ + 1]
  /\ UNCHANGED status

(* A restart settles every interrupted job at once: a cancelled one is     *)
(* cancelled, an installation is queued again, any other has failed.       *)
Restarted(j) ==
  CASE status[j] = "cancel_requested" -> "cancelled"
    [] status[j] = "running" /\ j \in InstallJobs -> "queued"
    [] status[j] = "running" /\ j \notin InstallJobs -> "failed"
    [] OTHER -> status[j]

Restart ==
  /\ status' = [j \in Jobs |-> Restarted(j)]
  /\ UNCHANGED starts

(* DELETE /api/v1/jobs removes every finished row at once.                 *)
Clear ==
  /\ status' = [j \in Jobs |-> IF status[j] \in Terminal THEN "deleted" ELSE status[j]]
  /\ UNCHANGED starts

Init ==
  /\ status = [j \in Jobs |-> "none"]
  /\ starts = [j \in Jobs |-> 0]

Next ==
  \/ Restart
  \/ Clear
  \/ \E j \in Jobs :
       \/ Create(j) \/ Claim(j) \/ Start(j)
       \/ CancelQueued(j) \/ CancelRunning(j)
       \/ Cancelled(j) \/ Succeed(j) \/ Fail(j)

Spec == Init /\ [][Next]_lifecycleVars
=============================================================================
