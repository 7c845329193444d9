---------------------------- MODULE FrigateUpgrade ----------------------------
(***************************************************************************)
(* Frigate in the helper (cmd/home-ai-core-updater/frigate_module.go,      *)
(* frigate_recovery.go, internal/frigate/snapshot.go).  Both images share  *)
(* one configuration directory, which the candidate migrates, so an upgrade*)
(* keeps a verified copy of it and a journal of how far it came.  Recovery *)
(* undoes an unfinished upgrade from the journal, after any interruption.  *)
(***************************************************************************)
EXTENDS DockerSaga

VARIABLES
  backup,    (* the version in the backup directory, 0: none, Partial      *)
  disk,      (* the journal file                                           *)
  mem,       (* the transaction as the running operation holds it          *)
  aside      (* the version last set aside as failed-config-<time>         *)

frigateVars == <<backup, disk, mem, aside>>

Config  == 1
Partial == -1       (* a copy that was interrupted                         *)
NoTxn   == [phase |-> "none", old |-> 0, new |-> 0, snap |-> 0]
Phases  == {"none", "prepared", "snapshotted", "swapped", "committed"}

Pending == disk.phase \notin {"none", "committed"}

-----------------------------------------------------------------------------
(* validateFrigateRequest, then the operation reads the journal.           *)

FrigateAsk(request, first) == Ask(request, first) /\ mem' = disk /\ UNCHANGED <<backup, disk, aside>>

(* The catalogue only moves forward: an image older than the data is never *)
(* offered for installation.                                               *)
AskFrigate ==
  \/ \E new \in Images :
       /\ row # 0 /\ new > row
       /\ FrigateAsk([op |-> "upgrade", new |-> new, old |-> row], "matching")
  \/ row # 0 /\ FrigateAsk([op |-> "recover", new |-> row, old |-> row], "reconciling")
  \/ \E op \in {"start", "restart"} :
       row # 0 /\ ~Pending /\ FrigateAsk([op |-> op, new |-> row, old |-> row], "controlling")
  \/ row # 0 /\ FrigateAsk([op |-> "stop", new |-> row, old |-> row], "controlling")
  \/ row # 0 /\ ~Pending /\ FrigateAsk([op |-> "remove", new |-> row, old |-> row], "removing")
  \/ \E new \in Images :
       /\ row = 0 /\ new >= data[Config] /\ (disk = NoTxn \/ (disk.phase = "committed" /\ disk.new = new))
       /\ FrigateAsk([op |-> "install", new |-> new, old |-> new], "adopting")

Docker(action) == action /\ UNCHANGED frigateVars

(* installFrigate: adopt a container of the same image or create one.      *)
Adopt ==
  \/ ~Exists("main") /\ Docker(Check("adopting", TRUE, "preparing_storage", "error"))
  \/ Exists("main") /\ Docker(Check("adopting", box["main"].image = ask.new, "adopted", "error"))
(* prepareFrigateStorage: an existing configuration is never overwritten.  *)
PrepareStorage ==
  /\ Write("preparing_storage",
           data' = IF data[Config] = 0 THEN [data EXCEPT ![Config] = 1] ELSE data,
           UNCHANGED data, "creating_main", "error")
  /\ UNCHANGED frigateVars
Install ==
  \/ Adopt
  \/ PrepareStorage
  \/ Docker(Command("adopted", Exists("main"), Started("main"), "resumed", "error"))
  \/ Docker(Check("resumed", Running("main"), "ok", "error"))
  \/ Docker(Command("creating_main", data[Config] # 0,
                    [box EXCEPT !["main"] = Created(ask.new, Config)], "starting_main", "error"))
  \/ Docker(Command("starting_main", Exists("main"), Started("main"), "watching_main", "discarding_main"))
  \/ Docker(Check("watching_main", Running("main"), "ok", "discarding_main"))
  \/ Docker(Command("discarding_main", TRUE, Removed("main"), "error", "error"))

(* Start, stop, restart and remove under the container's own name.         *)
Control ==
  \/ Docker(Command("controlling", Exists("main") /\ (ask.op = "stop" \/ data[Config] # 0),
                    IF ask.op = "stop" THEN Stopped("main") ELSE Started("main"), "ok", "error"))
  \/ Docker(Command("removing", TRUE, Removed("main"), "ok", "error"))

-----------------------------------------------------------------------------
(* upgradeFrigate.                                                         *)

(* A journal left by an earlier upgrade: finish it, undo it or refuse.     *)
Settled == mem.phase \in {"committed", "swapped"} /\ ask.old = mem.new
Match ==
  Docker(Check("matching",
    mem = NoTxn \/ Settled \/ ask.old = mem.old,
    IF mem = NoTxn THEN "verifying" ELSE IF Settled THEN "checking_new" ELSE "surveying",
    "error"))

Verify ==
  Docker(Check("verifying",
    Running("main") /\ box["main"].image = ask.old /\ StageFree, "creating", "error"))

Create ==
  Docker(Command("creating", ~Exists("candidate"),
    [box EXCEPT !["candidate"] = Created(ask.new, Config)], "preparing", "error"))

(* writeFrigateTransaction: renamed into place, then the directory synced. *)
Journal(step, txn, ok, bad) ==
  /\ mem' = txn
  /\ Write(step, disk' = txn, UNCHANGED disk, ok, bad)
  /\ UNCHANGED <<data, backup, aside>>

Prepare == Journal("preparing", [phase |-> "prepared", old |-> ask.old, new |-> ask.new, snap |-> 0],
                   "stopping", "discarding")
Discard == Docker(Command("discarding", TRUE, Removed("candidate"), "error", "error"))
StopOld == Docker(Command("stopping", Exists("main"), Stopped("main"), "copying", "surveying"))

(* CopyConfig makes the backup directory anew, and removes it on failure.  *)
BeginCopy ==
  \/ /\ Write("copying", backup = 0 /\ backup' = Partial, FALSE, "verifying_copy", "surveying")
     /\ UNCHANGED <<data, disk, mem, aside>>
  \/ backup # 0 /\ Docker(Check("copying", FALSE, "error", "surveying"))
EndCopy ==
  /\ Write("verifying_copy", backup' = data[Config], backup' = 0, "journaling_copy", "surveying")
  /\ UNCHANGED <<data, disk, mem, aside>>

JournalCopy == Journal("journaling_copy", [mem EXCEPT !.phase = "snapshotted", !.snap = backup],
                       "trying", "surveying")
Try     == Docker(Command("trying", Exists("candidate"), Started("candidate"), "watching", "surveying"))
Watch   == Docker(Check("watching", Running("candidate"), "retiring", "surveying"))
Retire  == Docker(Command("retiring", CanRename("main", "previous"), Renamed("main", "previous"),
                          "promoting", "surveying"))
Promote == Docker(Command("promoting", CanRename("candidate", "main"), Renamed("candidate", "main"),
                          "journaling_swap", "surveying"))
JournalSwap == Journal("journaling_swap", [mem EXCEPT !.phase = "swapped"], "confirming", "surveying")
Confirm == Docker(Check("confirming", Running("main"), "ok", "surveying"))

Upgrade ==
  Match \/ Verify \/ Create \/ Prepare \/ Discard \/ StopOld \/ BeginCopy \/ EndCopy \/ JournalCopy
    \/ Try \/ Watch \/ Retire \/ Promote \/ JournalSwap \/ Confirm

(* Core's second request: the journal must be of the same upgrade.         *)
Second ==
  /\ Registered(IF ask'.op = "commit" THEN "finishing" ELSE "compensating")
  /\ mem' = disk /\ UNCHANGED <<backup, disk, aside>>
Same == mem.phase # "none" /\ mem.new = ask.new /\ mem.old = ask.old
Finish     == Docker(Check("finishing", Same, "checking_new", "error"))
Compensate == Docker(Check("compensating", Same /\ mem.phase # "committed", "surveying", "error"))

-----------------------------------------------------------------------------
(* commitFrigateUpgrade, and before another upgrade clearFrigateTransaction*)

CheckNew ==
  Docker(Check("checking_new", Running("main") /\ box["main"].image = mem.new, "removing_old", "error"))
(* A bug: the removal of the old container may fail unnoticed.             *)
RemoveOldUnnoticed ==
  Docker(Command("removing_old", TRUE, Removed("previous"), "journaling_commit", "journaling_commit"))
RemoveOld == Docker(Command("removing_old", TRUE, Removed("previous"), "journaling_commit", "error"))
JournalCommit == Journal("journaling_commit", [mem EXCEPT !.phase = "committed"],
                         IF ask.op = "upgrade" THEN "clearing_backup" ELSE "ok", "error")

ClearBackup ==
  /\ Write("clearing_backup", backup' = 0, backup' \in {backup, Partial}, "clearing_journal", "error")
  /\ UNCHANGED <<data, disk, mem, aside>>
ClearJournal ==
  /\ Write("clearing_journal", disk' = NoTxn, UNCHANGED disk,
           IF ask.op # "upgrade" THEN "ok" ELSE IF mem.phase = "committed" THEN "verifying" ELSE "error",
           "error")
  /\ UNCHANGED <<data, backup, mem, aside>>

Commit == Second \/ Finish \/ Compensate \/ CheckNew \/ RemoveOld \/ JournalCommit
            \/ ClearBackup \/ ClearJournal

-----------------------------------------------------------------------------
(* recoverFrigateTransaction: survey everything, only then act.            *)

OldNames == {n \in Names : Exists(n) /\ box[n].image = mem.old}
NewNames == {n \in Names : Exists(n) /\ box[n].image = mem.new}
Expected ==
  /\ box["candidate"].image \in {0, mem.new} /\ box["previous"].image \in {0, mem.old}
  /\ box["main"].image \in {0, mem.old, mem.new}
(* A bug: only a finished swap is thought to have changed the data.        *)
CopyNeededLate == mem.phase = "swapped"
CopyNeeded == mem.phase # "prepared"

Survey ==
  Docker(Check("surveying",
    Expected /\ (\E n \in Names : OldNames = {n}) /\ (CopyNeeded => backup = mem.snap),
    "dropping", "error"))
(* A bug: the new container is left to itself.                             *)
DropNothing == Docker(Check("dropping", TRUE, "halting", "error"))
Drop ==
  \/ \E n \in NewNames : Docker(Command("dropping", TRUE, Removed(n), "dropping", "error"))
  \/ NewNames = {} /\ Docker(Check("dropping", TRUE, "halting", "error"))
Halt ==
  \E n \in OldNames : Docker(Command("halting", TRUE, Stopped(n),
                                     IF CopyNeeded THEN "setting_aside" ELSE "naming", "error"))

(* restoreFrigateConfig: a checked copy beside, then two renames.          *)
SetAside ==
  /\ pc = "setting_aside"
  /\ \/ /\ backup = mem.snap /\ data[Config] # 0 /\ data' = [data EXCEPT ![Config] = 0]
        /\ aside' = data[Config] /\ pc' = "putting_back" /\ UNCHANGED faults
     \/ /\ (backup # mem.snap \/ data[Config] = 0) /\ pc' = "error" /\ UNCHANGED <<data, aside, faults>>
     \/ pc' = "error" /\ Fault /\ UNCHANGED <<data, aside>>
  /\ Frame /\ UNCHANGED <<box, backup, disk, mem>>
PutBack ==
  /\ Write("putting_back", data' = [data EXCEPT ![Config] = mem.snap],
           \/ data' = [data EXCEPT ![Config] = aside]
           \/ data' = [data EXCEPT ![Config] = mem.snap],
           "naming", "error")
  /\ UNCHANGED <<backup, disk, mem, aside>>

Name ==
  \/ Exists("main") /\ Docker(Check("naming", TRUE, "reviving", "error"))
  \/ \E n \in OldNames \ {"main"} :
       Docker(Command("naming", CanRename(n, "main"), Renamed(n, "main"), "reviving", "error"))
Revive  == Docker(Command("reviving", Exists("main") /\ data[Config] # 0, Started("main"),
                          "rechecking", "error"))
Recheck == Docker(Check("rechecking", Running("main"), "clearing_backup", "error"))

(* recoverFrigateRegistered: the image Core has registered decides.        *)
Reconcile ==
  Docker(Check("reconciling",
    CASE mem = NoTxn -> box["main"].image = ask.new
      [] ask.new = mem.new -> mem.phase \in {"swapped", "committed"}
      [] OTHER -> ask.new = mem.old /\ mem.phase # "committed",
    CASE mem = NoTxn -> "ok" [] ask.new = mem.new -> "checking_new" [] OTHER -> "surveying",
    "error"))

Recover == Survey \/ Drop \/ Halt \/ SetAside \/ PutBack \/ Name \/ Revive \/ Recheck \/ Reconcile

FrigateInit == SagaInit /\ backup = 0 /\ disk = NoTxn /\ mem = NoTxn /\ aside = 0
FrigateNext ==
  \/ AskFrigate \/ Install \/ Control \/ Upgrade \/ Commit \/ Recover
  \/ Docker(Migrate) \/ Docker(Answered) \/ Docker(CoreDies) \/ Docker(HelperDies)
FrigateSpec == FrigateInit /\ [][FrigateNext]_<<sagaVars, frigateVars>>

-----------------------------------------------------------------------------
Txns == [phase : Phases, old : Images \cup {0}, new : Images \cup {0}, snap : Images \cup {0}]
FrigateTypeOK ==
  /\ SagaTypeOK
  /\ backup \in Images \cup {0, Partial} /\ disk \in Txns /\ mem \in Txns /\ aside \in Images \cup {0}

(* While Core's registered image is the old one of an unfinished upgrade,  *)
(* its data is never lost: the verified copy is complete, or the directory *)
(* itself still holds, or holds again, data that image can read.           *)
OldDataKept ==
  Pending /\ row = disk.old => backup \in 1..disk.old \/ data[Config] \in 1..disk.old

(* The journal says committed only once Core has registered the new image, *)
(* and then neither the old container nor a candidate is left.             *)
CommitIsFinal ==
  disk.phase = "committed" /\ pc = "idle" => row \in {0, disk.new} /\ StageFree

==============================================================================
