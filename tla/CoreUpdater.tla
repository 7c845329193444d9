----------------------------- MODULE CoreUpdater -----------------------------
(***************************************************************************)
(* Core replaces itself: updater.Service inside Core keeps the phase of    *)
(* the update and asks the root helper, which stops Core, swaps the binary *)
(* and the web files, starts Core again and leaves the result in a file.   *)
(*                                                                         *)
(* In Core three threads write the phase: a check (checkMu), a download,   *)
(* installation or rollback (opMu), and every reader of State, which       *)
(* consumes the helper's result.  setState writes memory and then, outside *)
(* the lock, state.json: two steps.  A read-modify-write of the phase by   *)
(* the operation is one step: another write between its two halves is the  *)
(* same as one just before the operation's previous write (of a check that *)
(* starts while a download fails to find its release only the version that *)
(* the failed phase carries would differ).                                 *)
(***************************************************************************)
EXTENDS Naturals, FiniteSets

CONSTANTS
  Versions,      (* releases of Core, in their order                       *)
  MaxRequests,   (* bound: checks and operations clients ask for           *)
  MaxMishaps     (* bound: kinds of mishap explored in one behaviour       *)

ASSUME UpdaterAssumption ==
  Versions \subseteq Nat \ {0} /\ MaxRequests \in Nat /\ MaxMishaps \in Nat

VARIABLES
  state,      (* Service.state: the phase and AvailableVersion             *)
  saved,      (* state.json                                                *)
  unsaved,    (* what each thread has set and not persisted yet            *)
  op,         (* the operation under opMu                                  *)
  check,      (* the check under checkMu, with the state it started from   *)
  reader,     (* a State call, with the change its result asks for         *)
  prepared,   (* versions whose bundle is unpacked and verified            *)
  running,    (* the version of the Core process, 0 when there is none     *)
  wanted,     (* systemd is to keep Core running                           *)
  helper,     (* where the helper's operation is                           *)
  live,       (* the installed binary and web files                        *)
  backup,     (* the helper's backup, labelled once it is complete         *)
  kept,       (* rollback-current: what a rollback replaces                *)
  aside,      (* the web files moved out of the way, 0 when there are none *)
  result,     (* install-result.json                                       *)
  requests,   (* checks and operations so far                              *)
  mishaps     (* what has gone wrong outside the code's control (history)  *)

memory  == <<state, unsaved, op, check, reader, running, requests>>
disk    == <<live, backup, kept, aside>>
vars == <<memory, saved, prepared, wanted, helper, disk, result, mishaps>>

-----------------------------------------------------------------------------
Threads == {"check", "op", "reader"}

St(phase, v) == [phase |-> phase, version |-> v]

Nothing == St("none", 0)

(* updateOperationInProgress                                               *)
InProgress == {"downloading", "ready", "installing", "rolling_back", "restarting"}
Phases == InProgress \cup {"idle", "checking", "available", "succeeded", "failed"}

(* The update has been handed to the helper, or is about to be.            *)
Handed == {"installing", "rolling_back", "restarting"}

NoFiles == [bin |-> 0, web |-> 0]
Whole(files) == files.bin = files.web /\ files.bin # 0

NoBackup == [bin |-> 0, web |-> 0, label |-> 0]
Offered == backup.label # 0                    (* availableRollback        *)

NoResult == [ok |-> FALSE, version |-> 0]

IdleOp     == [pc |-> "idle", version |-> 0]
IdleCheck  == [pc |-> "idle", before |-> Nothing]
IdleReader == [pc |-> "idle", next |-> Nothing]
IdleHelper == [pc |-> "idle", kind |-> "install", version |-> 0, from |-> 0]

(* What the environment does to the update is bounded; what the code does  *)
(* to itself - a write that comes too late, a result of an earlier update  *)
(* taken for that of the next one, a backup made of a wreck, a success     *)
(* left in state.json - is noted, and names the behaviours a property does *)
(* not cover.                                                              *)
Noted == {"overtaken", "stale", "interrupted", "wreck_kept", "outdated"}

Mishap(kind) ==
  /\ mishaps' = mishaps \cup {kind}
  /\ Cardinality(mishaps' \ Noted) <= MaxMishaps
Smooth == UNCHANGED mishaps

NotedIf(condition, kind) == mishaps' = mishaps \cup IF condition THEN {kind} ELSE {}

Told(s) == s.phase = "succeeded"

(* Core ends while the helper works, and state.json still tells a success  *)
(* that Core has taken back: the writes since then have failed.            *)
CoreEnds(kinds) ==
  /\ mishaps' = mishaps \cup kinds \cup
                  IF helper.pc # "idle" /\ Told(saved) /\ ~Told(state) THEN {"outdated"} ELSE {}
  /\ Cardinality(mishaps' \ Noted) <= MaxMishaps

Init ==
  /\ state = St("idle", 0) /\ saved = St("idle", 0)
  /\ unsaved = [t \in Threads |-> Nothing]
  /\ op = IdleOp /\ check = IdleCheck /\ reader = IdleReader
  /\ prepared = {}
  /\ \E v \in Versions :
       /\ \A w \in Versions : v <= w
       /\ running = v /\ live = [bin |-> v, web |-> v]
  /\ wanted = TRUE
  /\ helper = IdleHelper
  /\ backup = NoBackup /\ kept = NoFiles /\ aside = 0
  /\ result = NoResult
  /\ requests = 0 /\ mishaps = {}

Request == requests < MaxRequests /\ requests' = requests + 1

-----------------------------------------------------------------------------
(* setState and persistState.                                              *)

Free(t) == running # 0 /\ unsaved[t] = Nothing

SetState(t, s) ==
  /\ state' = s
  /\ unsaved' = [unsaved EXCEPT ![t] = s]

(* The thread that persists last wins, whatever memory holds; an error of  *)
(* the write is ignored.                                                   *)
Persist(t) ==
  /\ running # 0 /\ unsaved[t] # Nothing
  /\ unsaved' = [unsaved EXCEPT ![t] = Nothing]
  /\ \/ saved' = unsaved[t]
        /\ NotedIf(unsaved[t] # state, "overtaken")
     \/ UNCHANGED saved /\ Mishap("unsaved")
  /\ UNCHANGED <<state, op, check, reader, running, requests>>
  /\ UNCHANGED <<prepared, wanted, helper, disk, result>>

-----------------------------------------------------------------------------
(* Check: it reads the phase, asks GitHub for as long as that takes, and   *)
(* decides by the phase it has read.                                       *)

StartCheck ==
  /\ Free("check") /\ check.pc = "idle"
  /\ IF state.phase \in InProgress
     THEN check' = [pc |-> "asking", before |-> Nothing] /\ UNCHANGED <<state, unsaved>>
     ELSE check' = [pc |-> "asking", before |-> state] /\ SetState("check", St("checking", 0))
  /\ Request
  /\ UNCHANGED <<op, reader, running, saved, prepared, wanted, helper, disk, result, mishaps>>

(* No newer release, an error (the earlier state is put back when a cached *)
(* answer exists), or a newer release.                                     *)
CheckOutcomes ==
  {St("idle", 0), check.before} \cup {St("available", v) : v \in {w \in Versions : w > running}}

EndCheck ==
  /\ Free("check") /\ check.pc = "asking"
  /\ check' = IdleCheck
  /\ IF check.before = Nothing
     THEN UNCHANGED <<state, unsaved>> /\ Smooth
     ELSE /\ \E s \in CheckOutcomes : SetState("check", s)
          /\ NotedIf(state # St("checking", 0),
                     IF state.phase \in InProgress THEN "overtaken" ELSE "stale")
  /\ UNCHANGED <<op, reader, running, requests, saved, prepared, wanted, helper, disk, result>>

-----------------------------------------------------------------------------
(* Download, Install and Rollback: TryLock of opMu, so op is idle.         *)

Operate(from, to) == Free("op") /\ op.pc = from /\ op' = to

OpFrame == UNCHANGED <<check, reader, running, saved, wanted, disk, result, mishaps>>

Download(v) ==
  /\ Operate("idle", [pc |-> "finding", version |-> v])
  /\ Request /\ UNCHANGED <<state, unsaved, prepared, helper>> /\ OpFrame

FindCandidate ==
  /\ op.version > running
  /\ Operate("finding", [op EXCEPT !.pc = "downloading"])
  /\ SetState("op", St("downloading", op.version))
  /\ UNCHANGED <<prepared, helper>> /\ OpFrame /\ UNCHANGED requests

(* updateProgress writes the phase it finds.                               *)
UpdateProgress ==
  /\ Operate("downloading", op)
  /\ SetState("op", state)
  /\ UNCHANGED <<prepared, helper>> /\ OpFrame /\ UNCHANGED requests

(* The bundle is unpacked into an empty directory and verified.            *)
Prepare ==
  /\ Operate("downloading", IdleOp)
  /\ prepared' = prepared \cup {op.version}
  /\ SetState("op", St("ready", op.version))
  /\ UNCHANGED helper /\ OpFrame /\ UNCHANGED requests

FailDownload ==
  /\ op.pc \in {"finding", "downloading"} /\ Operate(op.pc, IdleOp)
  /\ prepared' \in {prepared, prepared \ IF op.pc = "downloading" THEN {op.version} ELSE {}}
  /\ SetState("op", St("failed", state.version))
  /\ UNCHANGED helper /\ OpFrame /\ UNCHANGED requests

Install ==
  /\ Request
  /\ state.phase = "ready"
  /\ \/ /\ state.version \in prepared
        /\ Operate("idle", [pc |-> "install", version |-> state.version])
        /\ SetState("op", St("installing", state.version))
     \/ /\ Operate("idle", IdleOp)                 \* VerifyPreparedBundle
        /\ SetState("op", St("failed", state.version))
  /\ UNCHANGED <<prepared, helper>> /\ OpFrame

Rollback ==
  /\ Request
  /\ Offered
  /\ Operate("idle", [pc |-> "rollback", version |-> backup.label])
  /\ SetState("op", St("rolling_back", backup.label))
  /\ UNCHANGED <<prepared, helper>> /\ OpFrame

Calling == op.pc \in {"install", "rollback"}

(* installMu was free and the bundle verified: the helper answers and      *)
(* works on its own.  Core may not get the answer.                         *)
Accept ==
  /\ Calling /\ helper.pc = "idle"
  /\ LET v == IF op.pc = "rollback" THEN backup.label ELSE op.version IN
     /\ v # 0
     /\ helper' = [pc |-> "pause", kind |-> op.pc, version |-> v, from |-> running]
     /\ \/ /\ Operate(op.pc, [pc |-> "accepted",
                             version |-> IF op.pc = "rollback" THEN v ELSE 0])
           /\ Smooth
        \/ Operate(op.pc, [pc |-> "refused", version |-> 0]) /\ Mishap("answer_lost")
  /\ UNCHANGED <<state, unsaved, check, reader, running, requests>>
  /\ UNCHANGED <<saved, prepared, wanted, disk, result>>

(* Busy, unverified, gone or too slow.                                     *)
Refuse ==
  /\ Calling /\ Operate(op.pc, [pc |-> "refused", version |-> 0])
  /\ UNCHANGED <<state, unsaved, prepared, helper>> /\ OpFrame /\ UNCHANGED requests

Accepted ==
  /\ Operate("accepted", IdleOp)
  /\ SetState("op", St("restarting", IF op.version = 0 THEN state.version ELSE op.version))
  /\ UNCHANGED <<prepared, helper>> /\ OpFrame /\ UNCHANGED requests

Refused ==
  /\ Operate("refused", IdleOp)
  /\ SetState("op", St("failed", state.version))
  /\ UNCHANGED <<prepared, helper>> /\ OpFrame /\ UNCHANGED requests

-----------------------------------------------------------------------------
(* reconcileInstallResult, in State and in New.                            *)

Underway == Calling \/ op.pc = "accepted" \/ helper.pc # "idle"

(* Bugs: a success is believed without asking which version runs; a        *)
(* failure is never shown.                                                 *)
ReconciledBlindly(r, s, v) ==
  CASE r.ok -> St("succeeded", r.version)
    [] ~r.ok /\ r # NoResult /\ s.version = r.version -> St("failed", r.version)
    [] OTHER -> s

ReconciledSuccess(r, s, v) ==
  IF r.ok /\ r.version = v /\ s.version \in {0, v} THEN St("succeeded", v) ELSE s

Reconciled(r, s, v) ==
  CASE r.ok /\ r.version = v /\ s.version \in {0, v} -> St("succeeded", v)
    [] ~r.ok /\ r # NoResult /\ s.version = r.version -> St("failed", r.version)
    [] OTHER -> s

ReadResult ==
  /\ Free("reader") /\ reader.pc = "idle" /\ result # NoResult
  /\ LET s == Reconciled(result, state, running) IN
     reader' = [pc |-> "read", next |-> IF s = state THEN Nothing ELSE s]
  /\ UNCHANGED <<state, unsaved, op, check, running, requests>>
  /\ UNCHANGED <<saved, prepared, wanted, helper, disk, result, mishaps>>

ApplyResult ==
  /\ Free("reader") /\ reader.pc = "read"
  /\ reader' = [reader EXCEPT !.pc = "applied"]
  /\ IF reader.next = Nothing THEN UNCHANGED <<state, unsaved>> /\ Smooth
     ELSE /\ SetState("reader", reader.next)
          /\ LET late == Reconciled(result, state, running) # reader.next IN
             NotedIf(late \/ (Underway /\ Told(reader.next)), IF late THEN "overtaken" ELSE "stale")
  /\ UNCHANGED <<op, check, running, requests, saved, prepared, wanted, helper, disk, result>>

(* defer os.Remove: the file may be a newer one by now.                    *)
RemoveResult ==
  /\ Free("reader") /\ reader.pc = "applied"
  /\ reader' = IdleReader
  /\ result' = NoResult
  /\ UNCHANGED <<state, unsaved, op, check, running, requests>>
  /\ UNCHANGED <<saved, prepared, wanted, helper, disk, mishaps>>

-----------------------------------------------------------------------------
(* The Core process starts and ends; systemd restarts it while it is       *)
(* wanted.                                                                 *)

CoreGone ==
  /\ running' = 0
  /\ state' = saved /\ unsaved' = [t \in Threads |-> Nothing]
  /\ op' = IdleOp /\ check' = IdleCheck /\ reader' = IdleReader
  /\ UNCHANGED requests

(* New: load state.json, reconcile.                                        *)
CoreStarts ==
  /\ running = 0 /\ wanted
  /\ running' = live.bin
  /\ state' = Reconciled(result, saved, live.bin)
  /\ saved' = state'
  /\ result' = NoResult
  /\ NotedIf(Underway /\ Told(state') /\ state' # saved, "stale")
  /\ UNCHANGED <<unsaved, op, check, reader, requests, prepared, wanted, helper, disk>>

CoreDies ==
  /\ running # 0
  /\ CoreGone /\ CoreEnds({"core_died"})
  /\ UNCHANGED <<saved, prepared, wanted, helper, disk, result>>

-----------------------------------------------------------------------------
(* The helper: performInstall and performManualRollback share the swap and *)
(* differ in where the new files come from and what an undo restores.      *)

Installs == helper.kind = "install"

New  == IF Installs THEN [bin |-> helper.version, web |-> helper.version]
                    ELSE [bin |-> backup.bin, web |-> backup.web]
Safe == IF Installs THEN [bin |-> backup.bin, web |-> backup.web] ELSE kept

To(from, to) == helper.pc = from /\ helper' = [helper EXCEPT !.pc = to]

CoreSame   == UNCHANGED <<memory, saved, prepared>>
HelperOnly == CoreSame /\ UNCHANGED <<wanted, result>>

(* The pause of 500 or 750 ms lets Core store that it was accepted: that   *)
(* it is long enough is an assumption of the code, and of this guard.      *)
Begin ==
  /\ op.pc # "accepted" /\ unsaved["op"] = Nothing
  /\ To("pause", IF Installs THEN "clear" ELSE "keep")
  /\ HelperOnly /\ UNCHANGED disk /\ Smooth

ClearBackup ==
  /\ To("clear", "copy")
  /\ backup' = NoBackup
  /\ NotedIf(~Whole(live), "wreck_kept")
  /\ HelperOnly /\ UNCHANGED <<live, kept, aside>>

(* copyTree fails when there are no web files to copy, and GiveUp follows. *)
CopyLive ==
  /\ live.web # 0
  /\ To("copy", "label")
  /\ backup' = [bin |-> live.bin, web |-> live.web, label |-> 0]
  /\ HelperOnly /\ UNCHANGED <<live, kept, aside>> /\ Smooth

(* A bug: the backup is never labelled.                                    *)
LabelNever == To("label", "stop") /\ HelperOnly /\ UNCHANGED disk /\ Smooth

LabelBackup ==
  /\ To("label", "stop")
  /\ backup' = [backup EXCEPT !.label = helper.from]
  /\ HelperOnly /\ UNCHANGED <<live, kept, aside>> /\ Smooth

KeepCurrent ==
  /\ Offered /\ live.web # 0
  /\ To("keep", "stop")
  /\ kept' = live
  /\ HelperOnly /\ UNCHANGED <<live, backup, aside>> /\ Smooth

Busy == op.pc # "idle" \/ \E t \in Threads : unsaved[t] # Nothing

Stop(from, to) ==
  /\ To(from, to)
  /\ CoreGone /\ wanted' = FALSE
  /\ CoreEnds(IF Busy THEN {"interrupted"} ELSE {})
  /\ UNCHANGED <<saved, prepared, result, live, backup, kept>>

(* The new files are staged next to the live ones, then systemctl stop.    *)
StopCore == Stop("stop", "binary") /\ aside' = 0

StopAgain == Stop("undo", "undo_binary") /\ UNCHANGED aside

(* Nothing has been replaced yet.  A systemctl stop that fails may still   *)
(* have stopped the unit: nobody starts it again.                          *)
GiveUp ==
  \/ /\ \E pc \in {"clear", "copy", "label", "keep", "stop"} : To(pc, "report_failed")
     /\ HelperOnly /\ UNCHANGED disk /\ Smooth
  \/ /\ To("stop", "report_failed")
     /\ CoreGone /\ wanted' = FALSE /\ CoreEnds({"systemctl"})
     /\ UNCHANGED <<saved, prepared, result, disk>>

SwapBinary ==
  /\ To("binary", "hide")
  /\ live' = [live EXCEPT !.bin = New.bin]
  /\ HelperOnly /\ UNCHANGED <<backup, kept, aside>> /\ Smooth

HideWeb ==
  /\ To("hide", "web")
  /\ aside' = live.web
  /\ live' = [live EXCEPT !.web = 0]
  /\ HelperOnly /\ UNCHANGED <<backup, kept>> /\ Smooth

SwapWeb ==
  /\ To("web", "start")
  /\ live' = [live EXCEPT !.web = New.web]
  /\ HelperOnly /\ UNCHANGED <<backup, kept, aside>> /\ Smooth

Start(from, to) ==
  /\ To(from, to)
  /\ wanted' = TRUE
  /\ CoreSame /\ UNCHANGED <<disk, result>> /\ Smooth

(* waitActive; then the helper replaces itself and forgets what it kept.   *)
BecomeActive ==
  /\ running # 0
  /\ To("health", "tool")
  /\ HelperOnly /\ UNCHANGED disk /\ Smooth

ReplaceHelper ==
  /\ To("tool", "report_done")
  /\ aside' = 0
  /\ kept' = IF Installs THEN kept ELSE NoFiles
  /\ HelperOnly /\ UNCHANGED <<live, backup>> /\ Smooth

(* Bug: a new Core that never becomes active is left in place.             *)
GiveBackUnhealthy ==
  /\ \/ \E pc \in {"binary", "hide", "web", "start", "tool"} : To(pc, "undo")
     \/ To("health", "report_failed")
  /\ HelperOnly /\ UNCHANGED disk /\ Smooth

(* Every failure from the first rename on undoes everything; only a        *)
(* rollback that cannot replace the binary just starts Core again.         *)
GiveBack ==
  /\ \E pc \in {"binary", "hide", "web", "start", "health", "tool"} :
       To(pc, IF pc = "binary" /\ ~Installs THEN "revive" ELSE "undo")
  /\ HelperOnly /\ UNCHANGED disk /\ Smooth

RestoreBinary ==
  /\ To("undo_binary", "undo_web")
  /\ live' = [live EXCEPT !.bin = Safe.bin]
  /\ HelperOnly /\ UNCHANGED <<backup, kept, aside>> /\ Smooth

RemoveWeb ==
  /\ To("undo_web", "undo_put")
  /\ live' = [live EXCEPT !.web = 0]
  /\ HelperOnly /\ UNCHANGED <<backup, kept, aside>> /\ Smooth

RestoreWeb ==
  /\ To("undo_put", "revive")
  /\ live' = [live EXCEPT !.web = IF aside # 0 THEN aside ELSE Safe.web]
  /\ aside' = 0
  /\ HelperOnly /\ UNCHANGED <<backup, kept>> /\ Smooth

(* rollback and restoreCurrent ignore the errors of their own steps.       *)
SkipStep ==
  /\ \/ To("undo", "undo_binary") \/ To("undo_binary", "undo_web")
     \/ To("undo_web", "undo_put") \/ To("undo_put", "revive")
     \/ To("revive", "report_failed")
  /\ Mishap("undo_failed")
  /\ HelperOnly /\ UNCHANGED disk

Report ==
  /\ helper.pc \in {"report_done", "report_failed"}
  /\ helper' = IdleHelper
  /\ \/ result' = [ok |-> helper.pc = "report_done", version |-> helper.version]
        /\ NotedIf(reader.pc # "idle", "overtaken")
     \/ UNCHANGED result /\ Mishap("unsaved")
  /\ CoreSame /\ UNCHANGED <<wanted, disk>>

HelperStep ==
  \/ Begin \/ ClearBackup \/ CopyLive \/ LabelBackup \/ KeepCurrent
  \/ StopCore \/ GiveUp
  \/ SwapBinary \/ HideWeb \/ SwapWeb \/ Start("start", "health")
  \/ BecomeActive \/ ReplaceHelper \/ GiveBack
  \/ StopAgain \/ RestoreBinary \/ RemoveWeb \/ RestoreWeb
  \/ Start("revive", "report_failed") \/ SkipStep \/ Report

(* The helper is killed and restarted: its operation is forgotten.         *)
HelperDies ==
  /\ helper.pc # "idle"
  /\ helper' = IdleHelper
  /\ Mishap("helper_died")
  /\ HelperOnly /\ UNCHANGED disk

(* The machine starts again: the unit of Core is enabled.                  *)
Boot ==
  /\ helper.pc = "idle" /\ ~wanted
  /\ wanted' = TRUE
  /\ CoreSame /\ UNCHANGED <<helper, disk, result, mishaps>>

-----------------------------------------------------------------------------
Operating ==
  \/ FindCandidate \/ UpdateProgress \/ Prepare \/ FailDownload
  \/ Accept \/ Refuse \/ Accepted \/ Refused

Reading == ReadResult \/ ApplyResult \/ RemoveResult

Next ==
  \/ \E t \in Threads : Persist(t)
  \/ StartCheck \/ EndCheck
  \/ \E v \in Versions : Download(v)
  \/ Install \/ Rollback \/ Operating
  \/ Reading
  \/ CoreStarts \/ CoreDies
  \/ HelperStep \/ HelperDies \/ Boot

Spec == Init /\ [][Next]_vars

(* The goroutines of both processes run, commands and requests end, and a  *)
(* client keeps asking for the state.                                      *)
FairSpec ==
  /\ Spec
  /\ \A t \in Threads : WF_vars(Persist(t))
  /\ WF_vars(Accept \/ Refuse) /\ WF_vars(Accepted \/ Refused)
  /\ SF_vars(ReadResult) /\ SF_vars(ApplyResult) /\ SF_vars(RemoveResult)
  /\ WF_vars(CoreStarts)
  /\ WF_vars(HelperStep)
-----------------------------------------------------------------------------
(* Every variable has its type: those of Core and those of the helper.     *)
Known   == [phase : Phases, version : Versions \cup {0}]
OpSteps == {"idle", "finding", "downloading", "install", "rollback", "accepted", "refused"}
Files   == [bin : Versions \cup {0}, web : Versions \cup {0}]
Steps   == {"clear", "copy", "label", "keep", "stop", "binary", "hide", "web", "start",
            "health", "tool", "undo", "undo_binary", "undo_web", "undo_put", "revive",
            "report_done", "report_failed"}
HelperWork == [pc : {"idle", "pause"} \cup Steps, kind : {"install", "rollback"},
               version : Versions \cup {0}, from : Versions \cup {0}]
Backups == [bin : Versions \cup {0}, web : Versions \cup {0}, label : Versions \cup {0}]
Results == [ok : BOOLEAN, version : Versions \cup {0}]

CoreTypeOK ==
  /\ state \in Known /\ saved \in Known
  /\ unsaved \in [Threads -> Known \cup {Nothing}]
  /\ op \in [pc : OpSteps, version : Versions \cup {0}]
  /\ op.pc \in {"finding", "downloading"} => op.version # 0
  /\ check \in [pc : {"idle", "asking"}, before : Known \cup {Nothing}]
  /\ reader \in [pc : {"idle", "read", "applied"}, next : Known \cup {Nothing}]
  /\ prepared \subseteq Versions /\ running \in Versions \cup {0}

HelperTypeOK ==
  /\ helper \in HelperWork /\ result \in Results
  /\ live \in Files /\ kept \in Files /\ aside \in Versions \cup {0} /\ wanted \in BOOLEAN
  /\ backup \in Backups

TypeOK == CoreTypeOK /\ HelperTypeOK

Spared(kinds) == mishaps \cap kinds = {}

(* Whatever step of an installation or a rollback fails, from the backup   *)
(* to the health check, the helper ends with binary and web files of one   *)
(* version and Core started from them: the new version when it reports     *)
(* success, and the one that ran before when it reports a failure          *)
(* (performInstall, rollback, performManualRollback, restoreCurrent).      *)
ServiceSurvives ==
  helper.pc \in {"idle", "report_done", "report_failed"}
      /\ Spared({"systemctl", "undo_failed", "helper_died"}) =>
    /\ wanted /\ Whole(live) /\ running \in {0, live.bin}
    /\ helper.pc = "report_done" => live.bin = helper.version
    /\ helper.pc = "report_failed" => live.bin = helper.from

(* While binary and web files are not of one version - during a swap, or   *)
(* after the helper died in one - the helper holds and offers a complete   *)
(* copy of one version, and an installation or rollback that then reports  *)
(* success has left one whole version, its own, and Core on it - until an  *)
(* installation starts from such a wreck, or a step of an undo fails.  It  *)
(* is no promise that an offered rollback can be carried out: while the    *)
(* web files are missing each ends in its first copy, that of these files  *)
(* (KeepCurrent), and they must be put back by hand, from that backup.     *)
WayBack ==
  Spared({"wreck_kept", "undo_failed"}) =>
    /\ ~Whole(live) => Offered /\ Whole(backup)
    /\ helper.pc = "report_done" => wanted /\ Whole(live) /\ live.bin = helper.version

(* A rollback that is offered leads where its label says: the label is     *)
(* written last, and is the version that ran when the copy was made.       *)
OfferIsTrue ==
  Offered /\ Spared({"wreck_kept", "undo_failed"}) => backup.bin = backup.label /\ Whole(backup)

(* Core never reports the success of an update to a version it does not    *)
(* run: neither after a restart, nor from the result of an earlier update, *)
(* nor after a rollback, also when the helper's answer or a result file is *)
(* lost.  Three exceptions are the code's own: "stale", a result nobody    *)
(* waited for, or a check, told while the next update was under way;       *)
(* "overtaken", a late write of another thread; and "outdated": all writes *)
(* of the phase failed from one success on until the helper stopped Core,  *)
(* and the Core it starts next believes that state.json.                   *)
SuccessIsTrue ==
  running # 0 /\ Told(state) /\ Spared({"overtaken", "stale", "outdated"}) =>
    state.version = running

(* An update handed to the helper comes to an end in the phase clients     *)
(* see, whichever of its steps fails and also when the helper's answer is  *)
(* lost - but not when Core dies at any time, or the helper before its     *)
(* result is written, when systemctl or a state file fails, or when        *)
(* another request or a late write has come over the phase.                *)
HandedOverSettles ==
  state.phase \in Handed ~>
    \/ state.phase \notin Handed
    \/ ~Spared({"core_died", "helper_died", "systemctl", "undo_failed", "unsaved",
                 "overtaken", "interrupted"})

(* What the variables say is typed and true: an offered way back exists,   *)
(* and an installation reported as done runs.                              *)
ReportsAreTrue == TypeOK /\ OfferIsTrue /\ SuccessIsTrue
=============================================================================
