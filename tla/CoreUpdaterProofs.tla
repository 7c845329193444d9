-------------------------- MODULE CoreUpdaterProofs --------------------------
(***************************************************************************)
(* Proofs about the update of Core (CoreUpdater), for every set of         *)
(* releases and every number of requests and mishaps: the service survives *)
(* the failure of any step, there is a way back from a wreck, and what is  *)
(* reported is true.                                                       *)
(***************************************************************************)
EXTENDS CoreUpdater, TLAPS

USE DEF Known, Phases, InProgress, OpSteps, Threads, St, Nothing, memory, disk

-----------------------------------------------------------------------------
(* Types.                                                                  *)

LEMMA TypeInit == Init => TypeOK
<1> SUFFICES ASSUME Init PROVE TypeOK
  OBVIOUS
<1>1. CoreTypeOK
  BY DEF Init, CoreTypeOK, IdleOp, IdleCheck, IdleReader
<1>2. HelperTypeOK
  BY DEF Init, HelperTypeOK, HelperWork, Results, Backups, Files, IdleHelper, NoBackup, NoFiles, NoResult
<1> QED BY <1>1, <1>2 DEF TypeOK

(* The helper's steps leave Core alone, or stop it.                        *)
LEMMA HelperSides ==
  ASSUME HelperStep
  PROVE  CoreSame \/ (CoreGone /\ UNCHANGED <<saved, prepared>>)
<1>1. CASE StopCore \/ StopAgain \/ GiveUp
  BY <1>1 DEF StopCore, StopAgain, Stop, GiveUp, HelperOnly
<1>2. CASE Begin \/ ClearBackup \/ CopyLive \/ LabelBackup \/ KeepCurrent \/ SwapBinary \/ HideWeb \/ SwapWeb
  BY <1>2 DEF Begin, ClearBackup, CopyLive, LabelBackup, KeepCurrent, SwapBinary, HideWeb, SwapWeb, HelperOnly
<1>3. CASE Start("start", "health") \/ BecomeActive \/ ReplaceHelper \/ GiveBack \/ RestoreBinary \/ RemoveWeb
             \/ RestoreWeb \/ Start("revive", "report_failed") \/ SkipStep \/ Report
  BY <1>3 DEF Start, BecomeActive, ReplaceHelper, GiveBack, RestoreBinary, RemoveWeb, RestoreWeb, SkipStep, Report, HelperOnly
<1> QED BY <1>1, <1>2, <1>3 DEF HelperStep

LEMMA CoreTypeStep ==
  ASSUME TypeOK, [Next]_vars
  PROVE  CoreTypeOK'
<1> USE DEF CoreTypeOK, TypeOK
<1>1. ASSUME NEW t \in Threads, Persist(t) PROVE CoreTypeOK'
  BY <1>1 DEF Persist
<1>2. CASE StartCheck
  BY <1>2 DEF StartCheck, Free, SetState
<1>3. CASE EndCheck
  BY <1>3 DEF EndCheck, Free, SetState, CheckOutcomes, IdleCheck
<1>4. ASSUME NEW v \in Versions, Download(v) PROVE CoreTypeOK'
  BY <1>4, UpdaterAssumption DEF Download, Operate, OpFrame
<1>5. CASE Install
  BY <1>5 DEF Install, Operate, OpFrame, SetState, IdleOp
<1>6. CASE Rollback
  BY <1>6 DEF HelperTypeOK, Backups, Rollback, Operate, OpFrame, SetState, Offered
<1>7. CASE Operating
  <2>1. CASE FindCandidate \/ UpdateProgress
    BY <2>1 DEF FindCandidate, UpdateProgress, Operate, OpFrame, SetState
  <2>2. CASE Prepare
    BY <2>2 DEF Prepare, Operate, OpFrame, SetState, IdleOp
  <2>3. CASE FailDownload
    BY <2>3 DEF FailDownload, Operate, OpFrame, SetState, IdleOp
  <2>4. CASE Accept
    BY <2>4 DEF HelperTypeOK, Backups, Accept, Operate, Calling
  <2>5. CASE Refuse
    BY <2>5 DEF Refuse, Operate, OpFrame, Calling
  <2>6. CASE Accepted
    BY <2>6 DEF Accepted, Operate, OpFrame, SetState, IdleOp
  <2>7. CASE Refused
    BY <2>7 DEF Refused, Operate, OpFrame, SetState, IdleOp
  <2> QED BY <1>7, <2>1, <2>2, <2>3, <2>4, <2>5, <2>6, <2>7 DEF Operating
<1>8. CASE Reading
  <2>1. CASE ReadResult
    BY <2>1 DEF HelperTypeOK, Results, ReadResult, Free, Reconciled
  <2>2. CASE ApplyResult
    BY <2>2 DEF ApplyResult, Free, SetState
  <2>3. CASE RemoveResult
    BY <2>3 DEF RemoveResult, Free, IdleReader
  <2> QED BY <1>8, <2>1, <2>2, <2>3 DEF Reading
<1>9. CASE CoreStarts
  BY <1>9 DEF HelperTypeOK, Results, Files, CoreStarts, Reconciled
<1>10. CASE CoreGone /\ UNCHANGED <<saved, prepared>>
  BY <1>10 DEF CoreGone, IdleOp, IdleCheck, IdleReader
<1>11. CASE CoreSame
  BY <1>11 DEF CoreSame
<1>12. CASE CoreDies \/ HelperStep \/ HelperDies \/ Boot
  BY <1>10, <1>11, <1>12, HelperSides DEF CoreDies, HelperDies, Boot, HelperOnly
<1>13. CASE UNCHANGED vars
  BY <1>13 DEF vars
<1> QED BY <1>1, <1>2, <1>3, <1>4, <1>5, <1>6, <1>7, <1>8, <1>9, <1>12, <1>13 DEF Next

-----------------------------------------------------------------------------
(* What Core's own steps are to the helper, and to what is installed.      *)
CoreMoves ==
  /\ UNCHANGED <<wanted, helper, disk>> /\ mishaps \subseteq mishaps'
  /\ result' \in {result, NoResult}
  /\ \/ running' \in {running, 0}
     \/ running = 0 /\ wanted /\ running' = live.bin /\ result' = NoResult

CoreStep ==
  \/ \E t \in Threads : Persist(t)
  \/ StartCheck \/ EndCheck
  \/ \E v \in Versions : Download(v)
  \/ Install \/ Rollback \/ (Operating /\ ~Accept) \/ Reading
  \/ CoreStarts \/ CoreDies

LEMMA StepKinds ==
  ASSUME [Next]_vars
  PROVE  CoreStep \/ Accept \/ HelperStep \/ HelperDies \/ Boot \/ UNCHANGED vars
BY DEF Next, CoreStep

LEMMA CoreOnlyMoves ==
  ASSUME CoreStep \/ UNCHANGED vars
  PROVE  CoreMoves
<1> USE DEF CoreMoves, NotedIf, Mishap, Smooth, CoreEnds
<1>1. CASE \E t \in Threads : Persist(t)
  BY <1>1 DEF Persist
<1>2. CASE StartCheck \/ EndCheck
  BY <1>2 DEF StartCheck, EndCheck
<1>3. CASE \E v \in Versions : Download(v)
  BY <1>3 DEF Download, OpFrame
<1>4. CASE Install \/ Rollback
  BY <1>4 DEF Install, Rollback, OpFrame
<1>5. CASE Operating /\ ~Accept
  BY <1>5 DEF Operating, FindCandidate, UpdateProgress, Prepare, FailDownload, Refuse, Accepted, Refused, OpFrame
<1>6. CASE Reading
  BY <1>6 DEF Reading, ReadResult, ApplyResult, RemoveResult
<1>7. CASE CoreStarts \/ CoreDies
  BY <1>7 DEF CoreStarts, CoreDies, CoreGone
<1>8. CASE UNCHANGED vars
  BY <1>8 DEF vars
<1> QED BY <1>1, <1>2, <1>3, <1>4, <1>5, <1>6, <1>7, <1>8 DEF CoreStep

LEMMA HelperTypeStep ==
  ASSUME TypeOK, [Next]_vars
  PROVE  HelperTypeOK'
<1>0. HelperTypeOK /\ op \in [pc : OpSteps, version : Versions \cup {0}] /\ running \in Versions \cup {0}
  BY DEF TypeOK, CoreTypeOK
<1> USE <1>0 DEF HelperTypeOK
<1>1. CASE CoreStep \/ UNCHANGED vars
  <2>1. CoreMoves
    BY <1>1, CoreOnlyMoves
  <2>2. NoResult \in Results
    BY DEF NoResult, Results
  <2> QED BY <2>1, <2>2 DEF CoreMoves
<1>2. CASE Accept
  <2>1. helper' \in HelperWork
    BY <1>2 DEF Accept, Calling, HelperWork, Backups
  <2> QED BY <1>2, <2>1 DEF Accept
<1>3. CASE HelperStep
  <2>1. ASSUME NEW pc \in {"idle", "pause"} \cup Steps, helper' = [helper EXCEPT !.pc = pc]
        PROVE  helper' \in HelperWork
    BY <2>1 DEF HelperWork
  <2> USE DEF To, HelperOnly, CoreSame
  <2>2. CASE Report
    <3>1. helper' \in HelperWork
      BY <2>2 DEF Report, IdleHelper, HelperWork
    <3>2. result' = result \/ \E b \in BOOLEAN : result' = [ok |-> b, version |-> helper.version]
      BY <2>2, Zenon DEF Report
    <3>3. result' \in Results
      BY <3>2 DEF Results, HelperWork
    <3> QED BY <2>2, <3>1, <3>3 DEF Report
  <2>3. CASE ~Report
    <3>1. helper' \in HelperWork
      <4>1. CASE Begin \/ ClearBackup \/ CopyLive \/ LabelBackup \/ KeepCurrent \/ StopCore \/ StopAgain \/
                SwapBinary \/ HideWeb \/ SwapWeb \/ Start("start", "health") \/ Start("revive",
                "report_failed") \/ BecomeActive \/ ReplaceHelper \/ RestoreBinary \/ RemoveWeb \/ RestoreWeb
        BY <4>1, <2>1 DEF Steps, Begin, ClearBackup, CopyLive, LabelBackup, KeepCurrent, StopCore, Stop, StopAgain,
           SwapBinary, HideWeb, SwapWeb, Start, BecomeActive, ReplaceHelper, RestoreBinary, RemoveWeb, RestoreWeb
      <4>2. CASE GiveBack \/ SkipStep
        BY <4>2, <2>1 DEF GiveBack, SkipStep, Steps
      <4>3. CASE GiveUp
        BY <4>3, <2>1 DEF GiveUp, Steps
      <4> QED BY <1>3, <2>3, <4>1, <4>2, <4>3 DEF HelperStep
    <3>2. UNCHANGED result
      BY <1>3, <2>3 DEF HelperStep, Begin, ClearBackup, CopyLive, LabelBackup, KeepCurrent, StopCore, StopAgain, Stop,
         GiveUp, SwapBinary, HideWeb, SwapWeb, Start, BecomeActive, ReplaceHelper, GiveBack, RestoreBinary,
         RemoveWeb, RestoreWeb, SkipStep
    <3>3. live' \in Files
      <4>1. CASE Begin \/ ClearBackup \/ CopyLive \/ LabelBackup \/ KeepCurrent \/ StopCore \/ StopAgain \/
                GiveUp \/ Start("start", "health") \/ Start("revive", "report_failed") \/ BecomeActive \/
                ReplaceHelper \/ GiveBack
        BY <4>1 DEF Begin, ClearBackup, CopyLive, LabelBackup, KeepCurrent, StopCore, Stop, StopAgain, GiveUp,
           Start, BecomeActive, ReplaceHelper, GiveBack
      <4>2. CASE SwapBinary
        BY <4>2 DEF SwapBinary, New, Files, Backups, HelperWork
      <4>3. CASE HideWeb
        BY <4>3 DEF HideWeb, Files
      <4>4. CASE SwapWeb
        BY <4>4 DEF SwapWeb, New, Files, Backups, HelperWork
      <4>5. CASE RestoreBinary
        BY <4>5 DEF RestoreBinary, Safe, Files, Backups
      <4>6. CASE RestoreWeb
        BY <4>6 DEF RestoreWeb, Safe, Files, Backups
      <4>7. CASE SkipStep
        BY <4>7 DEF SkipStep, Files
      <4>8. CASE RemoveWeb
        BY <4>8 DEF RemoveWeb, Files
      <4> QED BY <1>3, <2>3, <4>1, <4>2, <4>3, <4>4, <4>5, <4>6, <4>7, <4>8 DEF HelperStep
    <3>4. backup' \in Backups
      <4>1. CASE Begin \/ KeepCurrent \/ StopCore \/ StopAgain \/ GiveUp \/ SwapBinary \/ HideWeb \/ SwapWeb
                \/ Start("start", "health") \/ Start("revive", "report_failed") \/ BecomeActive \/
                ReplaceHelper \/ GiveBack \/ RestoreBinary \/ RemoveWeb \/ RestoreWeb \/ SkipStep
        BY <4>1 DEF Begin, KeepCurrent, StopCore, Stop, StopAgain, GiveUp, SwapBinary, HideWeb, SwapWeb,
           Start, BecomeActive, ReplaceHelper, GiveBack, RestoreBinary, RemoveWeb, RestoreWeb, SkipStep
      <4>2. CASE ClearBackup \/ CopyLive \/ LabelBackup
        BY <4>2 DEF ClearBackup, CopyLive, LabelBackup, NoBackup, Backups, Files, HelperWork
      <4> QED BY <1>3, <2>3, <4>1, <4>2 DEF HelperStep
    <3>5. kept' \in Files
      <4>1. CASE Begin \/ ClearBackup \/ CopyLive \/ LabelBackup \/ KeepCurrent \/ StopCore \/ StopAgain \/
                GiveUp \/ SwapBinary \/ HideWeb \/ SwapWeb \/ Start("start", "health") \/ Start("revive",
                "report_failed") \/ BecomeActive \/ GiveBack \/ RestoreBinary \/ RemoveWeb \/ RestoreWeb \/ SkipStep
        BY <4>1 DEF Begin, ClearBackup, CopyLive, LabelBackup, KeepCurrent, StopCore, Stop, StopAgain, GiveUp,
           SwapBinary, HideWeb, SwapWeb, Start, BecomeActive, GiveBack, RestoreBinary, RemoveWeb, RestoreWeb, SkipStep
      <4>2. CASE ReplaceHelper
        BY <4>2 DEF ReplaceHelper, NoFiles, Files
      <4> QED BY <1>3, <2>3, <4>1, <4>2 DEF HelperStep
    <3>6. aside' \in Versions \cup {0} /\ wanted' \in BOOLEAN
      <4>1. CASE Begin \/ ClearBackup \/ CopyLive \/ LabelBackup \/ KeepCurrent \/ StopCore \/ StopAgain \/
                GiveUp \/ SwapBinary \/ SwapWeb \/ Start("start", "health") \/ Start("revive",
                "report_failed") \/ BecomeActive \/ ReplaceHelper \/ GiveBack \/ RestoreBinary \/ RemoveWeb \/ RestoreWeb
                \/ SkipStep
        BY <4>1 DEF Begin, ClearBackup, CopyLive, LabelBackup, KeepCurrent, StopCore, Stop, StopAgain, GiveUp,
           SwapBinary, SwapWeb, Start, BecomeActive, ReplaceHelper, GiveBack, RestoreBinary, RemoveWeb, RestoreWeb,
           SkipStep
      <4>2. CASE HideWeb
        BY <4>2 DEF HideWeb, Files
      <4> QED BY <1>3, <2>3, <4>1, <4>2 DEF HelperStep
    <3> QED BY <3>1, <3>2, <3>3, <3>4, <3>5, <3>6
  <2> QED BY <2>2, <2>3
<1>4. CASE HelperDies
  BY <1>4 DEF HelperDies, HelperOnly, CoreSame, IdleHelper, HelperWork
<1>5. CASE Boot
  BY <1>5 DEF Boot, CoreSame
<1> QED BY <1>1, <1>2, <1>3, <1>4, <1>5, StepKinds

LEMMA TypeStep ==
  ASSUME TypeOK, [Next]_vars
  PROVE  TypeOK'
BY CoreTypeStep, HelperTypeStep DEF TypeOK
-----------------------------------------------------------------------------
(* Where the helper is, and what that says whatever has gone wrong.        *)
At(steps) == helper.pc \in steps

Early     == {"pause", "clear", "copy", "label", "keep", "stop"}
Swapping  == {"binary", "hide", "web", "start"}
Trying    == {"health", "tool"}
Restoring == {"undo_binary", "undo_web", "undo_put", "revive"}
AfterStop == Swapping \cup Trying \cup Restoring \cup {"undo"}

HasVersions == ~At({"idle"}) => helper.version # 0 /\ helper.from # 0
Kinds == /\ At({"clear", "copy", "label"}) => Installs
         /\ At({"keep"}) => ~Installs
StopsIt == At(Swapping) => running = 0 /\ ~wanted
Follows == At(Trying \cup {"report_done"}) => running \in {0, live.bin} /\ wanted
(* A result is of what runs, and none is left once Core has been stopped.  *)
ResultFits == result.ok => running \in {0, live.bin}
Consumed   == At(AfterStop) /\ running # 0 => result = NoResult

HelperFits == HasVersions /\ Kinds /\ StopsIt /\ Follows /\ ResultFits /\ Consumed

LEMMA ToMoves ==
  ASSUME HelperTypeOK, NEW from, NEW to, To(from, to)
  PROVE  /\ helper.pc = from /\ helper'.pc = to /\ Installs' = Installs
         /\ helper'.version = helper.version /\ helper'.from = helper.from
BY DEF HelperTypeOK, HelperWork, To, Installs

LEMMA HelperFitsStep ==
  ASSUME TypeOK, HelperFits, [Next]_vars
  PROVE  HelperFits'
<1>0. HelperTypeOK
  BY DEF TypeOK
<1> USE <1>0 DEF HelperFits, At, Early, Swapping, Trying, HasVersions, Kinds, StopsIt, Follows, ResultFits, Consumed,
                 Restoring, AfterStop
<1>1. CASE CoreStep \/ UNCHANGED vars
  <2>1. CoreMoves
    BY <1>1, CoreOnlyMoves
  <2> QED BY <2>1 DEF CoreMoves, Installs, NoResult
<1>2. CASE Accept
  BY <1>2 DEF Accept, Operate, Free, Installs
<1>3. CASE HelperStep
  <2> USE ToMoves DEF HelperOnly, CoreSame, NoResult
  <2>1. CASE Begin
    BY <2>1 DEF Begin
  <2>2. CASE ClearBackup
    BY <2>2 DEF ClearBackup
  <2>3. CASE CopyLive
    BY <2>3 DEF CopyLive
  <2>4. CASE LabelBackup
    BY <2>4 DEF LabelBackup
  <2>5. CASE KeepCurrent
    BY <2>5 DEF KeepCurrent
  <2>6. CASE StopCore
    BY <2>6 DEF StopCore, Stop, CoreGone
  <2>7. CASE StopAgain
    BY <2>7 DEF StopAgain, Stop, CoreGone
  <2>8. CASE GiveUp
    BY <2>8 DEF GiveUp, CoreGone
  <2>9. CASE SwapBinary
    BY <2>9 DEF SwapBinary
  <2>10. CASE HideWeb
    BY <2>10 DEF HideWeb
  <2>11. CASE SwapWeb
    BY <2>11 DEF SwapWeb
  <2>12. CASE Start("start", "health")
    BY <2>12 DEF Start
  <2>13. CASE Start("revive", "report_failed")
    BY <2>13 DEF Start
  <2>14. CASE BecomeActive
    BY <2>14 DEF BecomeActive
  <2>15. CASE ReplaceHelper
    BY <2>15 DEF ReplaceHelper
  <2>16. CASE GiveBack
    BY <2>16 DEF GiveBack
  <2>17. CASE RestoreBinary
    BY <2>17 DEF RestoreBinary
  <2>18. CASE RestoreWeb
    BY <2>18 DEF RestoreWeb
  <2>19. CASE SkipStep
    BY <2>19 DEF SkipStep
  <2>21. CASE RemoveWeb
    BY <2>21 DEF RemoveWeb
  <2>20. CASE Report
    <3>1. helper.pc \in {"report_done", "report_failed"} /\ helper'.pc = "idle" /\ UNCHANGED <<live, running, wanted>>
      BY <2>20 DEF Report, IdleHelper, memory, disk
    <3> HIDE <1>0 DEF HelperFits, At, Early, Swapping, Trying, HasVersions, Kinds, StopsIt, Follows, ResultFits, Consumed,
                      Restoring, AfterStop
    <3>2. \/ result' = result
          \/ \E b \in BOOLEAN : result' = [ok |-> b, version |-> helper.version] /\ (b => helper.pc = "report_done")
      BY <2>20, Zenon DEF Report
    <3>3. result'.ok => result.ok \/ helper.pc = "report_done"
      BY <3>2
    <3> QED BY <3>1, <3>3 DEF HelperFits, At, Swapping, Trying, HasVersions, Kinds, StopsIt, Follows, ResultFits, Consumed,
                              Restoring, AfterStop
  <2> QED BY <1>3, <2>1, <2>2, <2>3, <2>4, <2>5, <2>6, <2>7, <2>8, <2>9, <2>10, <2>11, <2>12, <2>13, <2>14, <2>15, <2>16, <2>17, <2>18, <2>19, <2>20, <2>21 DEF HelperStep
<1>4. CASE HelperDies
  BY <1>4 DEF HelperDies, HelperOnly, CoreSame, IdleHelper
<1>5. CASE Boot
  BY <1>5 DEF Boot, CoreSame, Installs
<1> QED BY <1>1, <1>2, <1>3, <1>4, <1>5, StepKinds

-----------------------------------------------------------------------------
(* What has gone wrong is never forgotten.                                 *)
LEMMA MishapsGrow ==
  ASSUME [Next]_vars
  PROVE  mishaps \subseteq mishaps'
<1> USE DEF NotedIf, Mishap, Smooth, CoreEnds
<1>1. CASE CoreStep \/ UNCHANGED vars
  BY <1>1, CoreOnlyMoves DEF CoreMoves
<1>2. CASE Accept
  BY <1>2 DEF Accept
<1>3. CASE HelperStep
  BY <1>3 DEF HelperStep, Begin, ClearBackup, CopyLive, LabelBackup, KeepCurrent, StopCore, StopAgain, Stop,
     GiveUp, SwapBinary, HideWeb, SwapWeb, Start, BecomeActive, ReplaceHelper, GiveBack, RestoreBinary,
     RemoveWeb, RestoreWeb, SkipStep, Report
<1>4. CASE HelperDies \/ Boot
  BY <1>4 DEF HelperDies, Boot
<1> QED BY <1>1, <1>2, <1>3, <1>4, StepKinds

(* The way back.  While an operation is at work its backup, or for a       *)
(* rollback the backup it was offered, is whole and labelled; the one      *)
(* moment without a label is when the live files are whole.                *)
WayHolds ==
  /\ running \in {0, live.bin}
  /\ At(Restoring) => running = 0 /\ ~wanted
  /\ At(Early) => live.bin = helper.from
  /\ Offered => backup.bin = backup.label /\ Whole(backup)
  /\ At({"copy", "label"}) \/ (At({"stop"}) /\ Installs) => Whole(live)
  /\ At({"label"}) => backup.bin = live.bin /\ backup.web = live.web
  /\ At(Early) /\ ~Installs => Offered
  /\ (At({"stop"}) /\ Installs) \/ At(AfterStop) => Offered
  /\ ~Whole(live) => Offered
  /\ At(Swapping \cup Trying) /\ ~Installs => backup.label = helper.version
  /\ At(Early) /\ ~Installs => backup.label = helper.version
  /\ At({"hide", "web", "start", "report_done"} \cup Trying) => live.bin = helper.version
  /\ At({"start", "report_done"} \cup Trying) => Whole(live)
  /\ At({"report_done"}) => wanted

WaySpared == Spared({"wreck_kept", "undo_failed"})
WayFits   == WaySpared => WayHolds

LEMMA WayStep ==
  ASSUME TypeOK, HelperFits, WayFits, [Next]_vars
  PROVE  WayFits'
<1> SUFFICES ASSUME WaySpared' PROVE WayHolds'
  BY DEF WayFits
<1>0. HelperTypeOK /\ WayHolds /\ mishaps \subseteq mishaps'
  BY MishapsGrow DEF TypeOK, WayFits, WaySpared, Spared
<1> USE <1>0 DEF WayHolds, At, Early, Swapping, Trying, Restoring, AfterStop
<1>1. CASE CoreStep \/ UNCHANGED vars
  <2>1. CoreMoves
    BY <1>1, CoreOnlyMoves
  <2> QED BY <2>1 DEF CoreMoves, Installs, Offered, Whole
<1>2. CASE Accept
  BY <1>2 DEF Accept, Operate, Free, Installs, Offered, Whole, Calling
<1>3. CASE HelperStep
  <2> USE ToMoves DEF HelperOnly, CoreSame, Whole, Offered, HelperFits, HasVersions, Kinds, StopsIt, Follows, HelperTypeOK, Files, Backups
  <2>1. CASE Begin
    BY <2>1 DEF Begin
  <2>2. CASE ClearBackup
    BY <2>2 DEF ClearBackup, NoBackup, WaySpared, Spared, NotedIf
  <2>3. CASE CopyLive
    BY <2>3 DEF CopyLive
  <2>4. CASE LabelBackup
    BY <2>4 DEF LabelBackup
  <2>5. CASE KeepCurrent
    BY <2>5 DEF KeepCurrent
  <2>6. CASE StopCore
    BY <2>6 DEF StopCore, Stop, CoreGone
  <2>7. CASE StopAgain
    BY <2>7 DEF StopAgain, Stop, CoreGone
  <2>8. CASE GiveUp
    BY <2>8 DEF GiveUp, CoreGone
  <2>9. CASE SwapBinary
    BY <2>9 DEF SwapBinary, New
  <2>10. CASE HideWeb
    BY <2>10 DEF HideWeb
  <2>11. CASE SwapWeb
    BY <2>11 DEF SwapWeb, New
  <2>12. CASE Start("start", "health")
    BY <2>12 DEF Start
  <2>13. CASE Start("revive", "report_failed")
    BY <2>13 DEF Start
  <2>14. CASE BecomeActive
    BY <2>14 DEF BecomeActive
  <2>15. CASE ReplaceHelper
    BY <2>15 DEF ReplaceHelper, NoFiles
  <2>16. CASE GiveBack
    BY <2>16 DEF GiveBack
  <2>17. CASE RestoreBinary
    BY <2>17 DEF RestoreBinary, Safe
  <2>18. CASE RestoreWeb
    BY <2>18 DEF RestoreWeb, Safe
  <2>19. CASE SkipStep
    BY <2>19 DEF SkipStep, WaySpared, Spared, Mishap
  <2>21. CASE RemoveWeb
    BY <2>21 DEF RemoveWeb
  <2>20. CASE Report
    BY <2>20 DEF Report, IdleHelper
  <2> QED BY <1>3, <2>1, <2>2, <2>3, <2>4, <2>5, <2>6, <2>7, <2>8, <2>9, <2>10, <2>11, <2>12, <2>13,
         <2>14, <2>15, <2>16, <2>17, <2>18, <2>19, <2>20, <2>21 DEF HelperStep
<1>4. CASE HelperDies
  BY <1>4 DEF HelperDies, HelperOnly, CoreSame, IdleHelper, Offered, Whole
<1>5. CASE Boot
  BY <1>5 DEF Boot, CoreSame, Installs, Offered, Whole
<1> QED BY <1>1, <1>2, <1>3, <1>4, <1>5, StepKinds

-----------------------------------------------------------------------------
(* The service survives.  Step by step, what is live, what the helper      *)
(* holds of the version that ran and, for a rollback, of the one it goes   *)
(* back to.                                                                *)
Both(v) == [bin |-> v, web |-> v]
Copy    == [bin |-> backup.bin, web |-> backup.web]

LiveFits ==
  /\ At(Early \cup {"binary"}) => live = Both(helper.from)
  /\ At({"hide"}) => live = [bin |-> helper.version, web |-> helper.from]
  /\ At({"web"}) => live = [bin |-> helper.version, web |-> 0]
  /\ At({"start", "report_done"} \cup Trying) => live = Both(helper.version)
  /\ At({"undo_web", "undo_put"}) => live.bin = helper.from
  /\ At({"revive", "report_failed"}) => live = Both(helper.from)
  /\ At({"idle"}) => Whole(live)

AsideFits ==
  /\ At({"binary", "hide"}) => aside = 0
  /\ At({"web", "start"} \cup Trying) => aside = helper.from
  /\ At({"undo", "undo_binary", "undo_web", "undo_put"}) => aside \in {0, helper.from}

CopyFits ==
  /\ Offered => Copy = Both(backup.label)
  /\ At({"label"}) => Copy = Both(helper.from)
  /\ At({"stop"} \cup AfterStop) =>
       IF Installs THEN Copy = Both(helper.from) /\ backup.label = helper.from ELSE kept = Both(helper.from)
  /\ At(Early \cup AfterStop) /\ ~Installs => Copy = Both(helper.version) /\ backup.label = helper.version

ProcessFits ==
  /\ running \in {0, live.bin}
  /\ At({"idle", "report_failed"} \cup Early) => wanted
  /\ At(Restoring) => running = 0 /\ ~wanted

ServiceHolds == LiveFits /\ AsideFits /\ CopyFits /\ ProcessFits
ServiceFits  == Spared({"systemctl", "undo_failed", "helper_died"}) => ServiceHolds

LEMMA ServiceStep ==
  ASSUME TypeOK, HelperFits, ServiceFits, [Next]_vars
  PROVE  ServiceFits'
<1> SUFFICES ASSUME Spared({"systemctl", "undo_failed", "helper_died"})' PROVE ServiceHolds'
  BY DEF ServiceFits
<1>0. HelperTypeOK /\ ServiceHolds /\ mishaps \subseteq mishaps'
  BY MishapsGrow DEF TypeOK, ServiceFits, Spared
<1> USE <1>0 DEF ServiceHolds, LiveFits, AsideFits, CopyFits, ProcessFits, Both, Copy, At, Early, Swapping, Trying,
                 Restoring, AfterStop, Offered, Whole
<1>1. CASE CoreStep \/ UNCHANGED vars
  <2>1. CoreMoves
    BY <1>1, CoreOnlyMoves
  <2> QED BY <2>1 DEF CoreMoves, Installs
<1>2. CASE Accept
  <2>1. /\ helper.pc = "idle" /\ helper'.pc = "pause" /\ running # 0
        /\ helper'.from = running /\ (~Installs' => helper'.version = backup.label /\ backup.label # 0)
        /\ UNCHANGED <<live, backup, kept, aside, wanted, running>>
    BY <1>2 DEF Accept, Operate, Free, Installs, Calling
  <2>2. LiveFits' /\ AsideFits' /\ ProcessFits'
    BY <2>1, <1>0 DEF HelperTypeOK, Files
  <2>3. CopyFits'
    BY <2>1
  <2> QED BY <2>2, <2>3
<1>3. CASE HelperStep
  <2> USE ToMoves DEF HelperOnly, CoreSame, HelperFits, HasVersions, Kinds, StopsIt, Follows, HelperTypeOK, Files, Backups
  <2>1. CASE Begin
    BY <2>1 DEF Begin
  <2>2. CASE ClearBackup
    BY <2>2 DEF ClearBackup, NoBackup
  <2>3. CASE CopyLive
    BY <2>3 DEF CopyLive
  <2>4. CASE LabelBackup
    BY <2>4 DEF LabelBackup
  <2>5. CASE KeepCurrent
    BY <2>5 DEF KeepCurrent
  <2>6. CASE StopCore
    BY <2>6 DEF StopCore, Stop, CoreGone
  <2>7. CASE StopAgain
    BY <2>7 DEF StopAgain, Stop, CoreGone
  <2>8. CASE GiveUp
    BY <2>8 DEF GiveUp, CoreGone, Spared, CoreEnds
  <2>9. CASE SwapBinary
    BY <2>9 DEF SwapBinary, New
  <2>10. CASE HideWeb
    BY <2>10 DEF HideWeb
  <2>11. CASE SwapWeb
    BY <2>11 DEF SwapWeb, New
  <2>12. CASE Start("start", "health")
    BY <2>12 DEF Start
  <2>13. CASE Start("revive", "report_failed")
    BY <2>13 DEF Start
  <2>14. CASE BecomeActive
    BY <2>14 DEF BecomeActive
  <2>15. CASE ReplaceHelper
    BY <2>15 DEF ReplaceHelper, NoFiles
  <2>16. CASE GiveBack
    BY <2>16 DEF GiveBack
  <2>17. CASE RestoreBinary
    BY <2>17 DEF RestoreBinary, Safe
  <2>18. CASE RestoreWeb
    BY <2>18 DEF RestoreWeb, Safe
  <2>19. CASE SkipStep
    BY <2>19 DEF SkipStep, Spared, Mishap
  <2>21. CASE RemoveWeb
    BY <2>21 DEF RemoveWeb
  <2>20. CASE Report
    BY <2>20 DEF Report, IdleHelper
  <2> QED BY <1>3, <2>1, <2>2, <2>3, <2>4, <2>5, <2>6, <2>7, <2>8, <2>9, <2>10, <2>11, <2>12, <2>13,
         <2>14, <2>15, <2>16, <2>17, <2>18, <2>19, <2>20, <2>21 DEF HelperStep
<1>4. CASE HelperDies
  BY <1>4 DEF HelperDies, Spared, Mishap
<1>5. CASE Boot
  BY <1>5 DEF Boot, CoreSame, Installs
<1> QED BY <1>1, <1>2, <1>3, <1>4, <1>5, StepKinds

-----------------------------------------------------------------------------
(* What is told of a success.  Without Core there is no memory of it, and  *)
(* a thread that does nothing remembers nothing.                           *)
Gone ==
  running = 0 =>
    /\ state = saved /\ op = IdleOp /\ check = IdleCheck /\ reader = IdleReader
    /\ unsaved = [t \in Threads |-> Nothing]

ThreadsFit ==
  /\ check.pc = "idle" => check = IdleCheck
  /\ reader.pc = "idle" => reader = IdleReader
  /\ reader.next.phase # "checking"

CoreFits == Gone /\ ThreadsFit

LEMMA CoreFitsStep ==
  ASSUME TypeOK, CoreFits, [Next]_vars
  PROVE  CoreFits'
<1>0. CoreTypeOK /\ HelperTypeOK
  BY DEF TypeOK
<1> USE <1>0 DEF CoreTypeOK, CoreFits, Gone, ThreadsFit
<1>1. ASSUME NEW t \in Threads, Persist(t) PROVE CoreFits'
  BY <1>1 DEF Persist
<1>2. CASE StartCheck \/ EndCheck
  BY <1>2 DEF StartCheck, EndCheck, Free, IdleCheck
<1>3. ASSUME NEW v \in Versions, Download(v) PROVE CoreFits'
  BY <1>3 DEF Download, Operate, OpFrame, Free
<1>4. CASE Install \/ Rollback
  BY <1>4 DEF Install, Rollback, Operate, OpFrame, Free
<1>5. CASE Operating
  BY <1>5 DEF Operating, FindCandidate, UpdateProgress, Prepare, FailDownload, Accept, Refuse, Accepted, Refused,
              Operate, OpFrame, Free
<1>6. CASE Reading
  <2>1. CASE ReadResult
    BY <2>1 DEF ReadResult, Free, Reconciled
  <2>2. CASE ApplyResult \/ RemoveResult
    BY <2>2 DEF ApplyResult, RemoveResult, Free, IdleReader
  <2> QED BY <1>6, <2>1, <2>2 DEF Reading
<1>7. CASE CoreStarts
  BY <1>7 DEF CoreStarts
<1>8. CASE CoreGone /\ UNCHANGED saved
  BY <1>8 DEF CoreGone, IdleReader
<1>9. CASE CoreSame
  BY <1>9 DEF CoreSame
<1>10. CASE CoreDies \/ HelperStep \/ HelperDies \/ Boot
  BY <1>8, <1>9, <1>10, HelperSides DEF CoreDies, HelperDies, Boot, HelperOnly
<1>11. CASE UNCHANGED vars
  BY <1>11 DEF vars
<1> QED BY <1>1, <1>2, <1>3, <1>4, <1>5, <1>6, <1>7, <1>10, <1>11 DEF Next

(* Whoever remembers a success - the phase, its file, a check or a reader  *)
(* at work, a thread about to persist - remembers that of the binary in    *)
(* place; once an operation is with the helper the phase tells of none,    *)
(* and its file of none by the time Core has ended, so that the swap finds *)
(* none.                                                                   *)
Fits(s) == Told(s) => s.version = live.bin /\ running \in {0, live.bin}
InHand  == helper.pc # "idle" \/ op.pc = "accepted"

MemoryFits ==
  /\ Fits(state) /\ Fits(saved) /\ Fits(check.before) /\ Fits(reader.next)
  /\ \A t \in Threads : Fits(unsaved[t])

HandFits ==
  /\ InHand => ~Told(state) /\ (running = 0 => ~Told(saved))
  /\ Calling => ~Told(state)
  /\ Told(check.before) /\ state = St("checking", 0) => ~Underway

SwapFits ==
  At(AfterStop) =>
    /\ ~Told(state) /\ ~Told(saved) /\ ~Told(check.before) /\ ~Told(reader.next)
    /\ \A t \in Threads : ~Told(unsaved[t])

SuccessHolds  == MemoryFits /\ HandFits /\ SwapFits
SuccessSpared == Spared({"overtaken", "stale", "outdated"})
SuccessFits   == SuccessSpared => SuccessHolds

(* A step of Core outside the helper's reach.                              *)
LEMMA SuccessCoreStep ==
  ASSUME TypeOK, HelperFits, CoreFits, SuccessHolds, SuccessSpared', CoreStep \/ Accept
  PROVE  SuccessHolds'
<1>0. CoreTypeOK /\ HelperTypeOK
  BY DEF TypeOK
<1>a. At(AfterStop) => helper.pc # "idle"
  BY DEF At, AfterStop, Swapping, Trying, Restoring
<1>b. ASSUME UNCHANGED helper PROVE At(AfterStop)' = At(AfterStop)
  BY <1>b DEF At
<1> USE <1>0, <1>a, <1>b DEF CoreTypeOK, SuccessHolds, MemoryFits, HandFits, SwapFits, Fits, InHand, Told, Calling, Underway
<1>1. ASSUME NEW t \in Threads, Persist(t) PROVE SuccessHolds'
  <2>1. (saved' = unsaved[t] /\ unsaved[t] = state) \/ saved' = saved
    BY <1>1 DEF Persist, NotedIf, SuccessSpared, Spared
  <2> QED BY <1>1, <2>1 DEF Persist
<1>2. CASE StartCheck
  BY <1>2 DEF StartCheck, Free, SetState, OpFrame
<1>3. CASE EndCheck
  <2>1. check.before = Nothing \/ state = St("checking", 0)
    BY <1>3 DEF EndCheck, NotedIf, SuccessSpared, Spared
  <2> QED BY <1>3, <2>1 DEF EndCheck, Free, SetState, CheckOutcomes, IdleCheck
<1>4. ASSUME NEW v \in Versions, Download(v) PROVE SuccessHolds'
  BY <1>4 DEF Download, Operate, OpFrame
<1>5. CASE Install
  BY <1>5 DEF Install, Operate, Free, OpFrame, SetState, IdleOp
<1>6. CASE Rollback
  BY <1>6 DEF Rollback, Operate, Free, OpFrame, SetState
<1>7. CASE Operating
  <2>1. CASE FindCandidate
    BY <2>1 DEF FindCandidate, Operate, OpFrame, SetState
  <2>2. CASE UpdateProgress
    BY <2>2 DEF UpdateProgress, Operate, OpFrame, SetState
  <2>3. CASE Prepare
    BY <2>3 DEF Prepare, Operate, OpFrame, SetState, IdleOp
  <2>4. CASE FailDownload
    BY <2>4 DEF FailDownload, Operate, OpFrame, SetState, IdleOp
  <2>5. CASE Accept
    <3>1. /\ Calling /\ running # 0 /\ op'.pc \in {"accepted", "refused"} /\ helper'.pc = "pause"
          /\ UNCHANGED <<state, saved, unsaved, check, reader, running, live>>
      BY <2>5 DEF Accept, Operate, Free
    <3>2. ~At(AfterStop)'
      BY <3>1 DEF At, AfterStop, Swapping, Trying, Restoring
    <3> QED BY <3>1, <3>2
  <2>6. CASE Refuse
    BY <2>6 DEF Refuse, Operate, OpFrame
  <2>7. CASE Accepted \/ Refused
    BY <2>7 DEF Accepted, Refused, Operate, OpFrame, SetState, IdleOp
  <2> QED BY <1>7, <2>1, <2>2, <2>3, <2>4, <2>5, <2>6, <2>7 DEF Operating
<1>8. CASE ReadResult
  <2>1. Told(reader'.next) => reader'.next.version = running /\ running = live.bin /\ ~At(AfterStop)
    BY <1>8 DEF ReadResult, Free, Reconciled, HelperFits, ResultFits, Consumed
  <2> QED BY <1>8, <2>1 DEF ReadResult
<1>9. CASE ApplyResult
  <2>1. Told(reader.next) => ~Underway
    BY <1>9 DEF ApplyResult, NotedIf, SuccessSpared, Spared
  <2> QED BY <1>9, <2>1 DEF ApplyResult, Free, SetState, CoreFits, ThreadsFit
<1>10. CASE RemoveResult
  BY <1>10 DEF RemoveResult, IdleReader
<1>11. CASE CoreStarts
  <2>1. Told(state') => state' = saved \/ (state'.version = live.bin /\ ~Underway)
    BY <1>11 DEF CoreStarts, Reconciled, NotedIf, SuccessSpared, Spared
  <2> QED BY <1>11, <2>1 DEF CoreStarts, CoreFits, Gone, IdleOp, IdleCheck, IdleReader
<1>12. CASE CoreDies
  <2>1. helper.pc # "idle" /\ Told(saved) => Told(state)
    BY <1>12 DEF CoreDies, CoreEnds, SuccessSpared, Spared
  <2> QED BY <1>12, <2>1 DEF CoreDies, CoreGone, IdleOp, IdleCheck, IdleReader
<1> QED BY <1>1, <1>2, <1>3, <1>4, <1>5, <1>6, <1>7, <1>8, <1>9, <1>10, <1>11, <1>12 DEF CoreStep, Operating, Reading

LEMMA SuccessStep ==
  ASSUME TypeOK, HelperFits, CoreFits, SuccessFits, [Next]_vars
  PROVE  SuccessFits'
<1> SUFFICES ASSUME SuccessSpared' PROVE SuccessHolds'
  BY DEF SuccessFits
<1>0. SuccessHolds /\ CoreTypeOK /\ HelperTypeOK
  BY MishapsGrow DEF TypeOK, SuccessFits, SuccessSpared, Spared
<1>1. CASE CoreStep \/ Accept
  BY <1>0, <1>1, SuccessCoreStep
<1> USE <1>0 DEF SuccessHolds, MemoryFits, HandFits, SwapFits, Fits, InHand, Told, Calling, Underway
<1>2. ASSUME CoreSame, live' = live \/ At(AfterStop), helper.pc # "idle" \/ UNCHANGED helper,
             At(AfterStop)' => At(AfterStop)
      PROVE  SuccessHolds'
  BY <1>2 DEF CoreSame, CoreTypeOK, At, AfterStop, Swapping, Trying, Restoring
<1>3. ASSUME NEW kinds, CoreGone, CoreEnds(kinds), UNCHANGED <<saved, live>>, helper.pc # "idle"
      PROVE  SuccessHolds'
  <2>1. ~Told(saved)
    BY <1>3 DEF CoreEnds, SuccessSpared, Spared
  <2> QED BY <1>3, <2>1 DEF CoreGone, IdleOp, IdleCheck, IdleReader
<1>4. CASE HelperStep
  <2> USE ToMoves DEF At, AfterStop, Swapping, Trying, Restoring
  <2>1. CASE Begin
    BY <1>2, <2>1 DEF Begin, HelperOnly, disk
  <2>2. CASE ClearBackup
    BY <1>2, <2>2 DEF ClearBackup, HelperOnly, disk
  <2>3. CASE CopyLive
    BY <1>2, <2>3 DEF CopyLive, HelperOnly, disk
  <2>4. CASE LabelBackup
    BY <1>2, <2>4 DEF LabelBackup, HelperOnly, disk
  <2>5. CASE KeepCurrent
    BY <1>2, <2>5 DEF KeepCurrent, HelperOnly, disk
  <2>6. CASE StopCore
    BY <1>3, <2>6 DEF StopCore, Stop, disk
  <2>7. CASE StopAgain
    BY <1>3, <2>7 DEF StopAgain, Stop, disk
  <2>8. CASE GiveUp
    BY <1>2, <1>3, <2>8 DEF GiveUp, HelperOnly, disk
  <2>9. CASE SwapBinary
    BY <1>2, <2>9 DEF SwapBinary, HelperOnly, disk
  <2>10. CASE HideWeb
    BY <1>2, <2>10 DEF HideWeb, HelperOnly, disk
  <2>11. CASE SwapWeb
    BY <1>2, <2>11 DEF SwapWeb, HelperOnly, disk
  <2>12. CASE Start("start", "health")
    BY <1>2, <2>12 DEF Start, HelperOnly, disk
  <2>13. CASE Start("revive", "report_failed")
    BY <1>2, <2>13 DEF Start, HelperOnly, disk
  <2>14. CASE BecomeActive
    BY <1>2, <2>14 DEF BecomeActive, HelperOnly, disk
  <2>15. CASE ReplaceHelper
    BY <1>2, <2>15 DEF ReplaceHelper, HelperOnly, disk
  <2>16. CASE GiveBack
    BY <1>2, <2>16 DEF GiveBack, HelperOnly, disk
  <2>17. CASE RestoreBinary
    BY <1>2, <2>17 DEF RestoreBinary, HelperOnly, disk
  <2>18. CASE RestoreWeb
    BY <1>2, <2>18 DEF RestoreWeb, HelperOnly, disk
  <2>19. CASE SkipStep
    BY <1>2, <2>19 DEF SkipStep, HelperOnly, disk
  <2>21. CASE RemoveWeb
    BY <1>2, <2>21 DEF RemoveWeb, HelperOnly, disk
  <2>20. CASE Report
    BY <1>2, <2>20 DEF Report, HelperOnly, IdleHelper, disk
  <2> QED BY <1>4, <2>1, <2>2, <2>3, <2>4, <2>5, <2>6, <2>7, <2>8, <2>9, <2>10, <2>11, <2>12, <2>13,
         <2>14, <2>15, <2>16, <2>17, <2>18, <2>19, <2>20, <2>21 DEF HelperStep
<1>5. CASE HelperDies
  BY <1>2, <1>5 DEF HelperDies, HelperOnly, IdleHelper, At, AfterStop, Swapping, Trying, Restoring
<1>6. CASE Boot
  BY <1>2, <1>6 DEF Boot, At
<1>7. CASE UNCHANGED vars
  BY <1>2, <1>7 DEF vars, CoreSame, At
<1> QED BY <1>1, <1>4, <1>5, <1>6, <1>7, StepKinds

-----------------------------------------------------------------------------
(* The theorems.                                                           *)
UpdateFits == TypeOK /\ HelperFits /\ CoreFits /\ WayFits /\ ServiceFits /\ SuccessFits

LEMMA UpdateInit == Init => UpdateFits
<1> SUFFICES ASSUME Init PROVE UpdateFits
  OBVIOUS
<1>0. TypeOK
  BY TypeInit
<1> USE DEF Init, IdleHelper, At, Early, Swapping, Trying, Restoring, AfterStop
<1>1. PICK v \in Versions : running = v /\ live = [bin |-> v, web |-> v]
  BY DEF Init
<1>2. v # 0 /\ Whole(live)
  BY <1>1, UpdaterAssumption DEF Whole
<1>3. HelperFits
  BY <1>1 DEF HelperFits, HasVersions, Kinds, StopsIt, Follows, ResultFits, Consumed, NoResult
<1>4. CoreFits
  BY <1>1, <1>2 DEF CoreFits, Gone, ThreadsFit, IdleReader
<1>5. WayFits
  BY <1>1, <1>2 DEF WayFits, WayHolds, Offered, NoBackup
<1>6. ServiceFits
  BY <1>1, <1>2 DEF ServiceFits, ServiceHolds, LiveFits, AsideFits, CopyFits, ProcessFits, Offered, NoBackup
<1>7. SuccessFits
  BY DEF SuccessFits, SuccessHolds, MemoryFits, HandFits, SwapFits, Fits, InHand, Told, Calling, IdleOp, IdleCheck,
         IdleReader
<1> QED BY <1>0, <1>3, <1>4, <1>5, <1>6, <1>7 DEF UpdateFits

LEMMA UpdateStays == Spec => []UpdateFits
<1>1. UpdateFits /\ [Next]_vars => UpdateFits'
  BY TypeStep, HelperFitsStep, CoreFitsStep, WayStep, ServiceStep, SuccessStep DEF UpdateFits
<1> QED BY <1>1, UpdateInit, PTL DEF Spec

(* Whatever step of an update fails, the helper ends with a Core that runs *)
(* or is started from whole files: those of the new version when it says   *)
(* so, those of the version before when it reports a failure               *)
(* (performInstall, rollback, performManualRollback, restoreCurrent).      *)
THEOREM ServiceIsKept == Spec => []ServiceSurvives
<1>1. UpdateFits => ServiceSurvives
  <2> SUFFICES ASSUME UpdateFits, helper.pc \in {"idle", "report_done", "report_failed"},
                      Spared({"systemctl", "undo_failed", "helper_died"})
               PROVE  /\ wanted /\ Whole(live) /\ running \in {0, live.bin}
                      /\ helper.pc = "report_done" => live.bin = helper.version
                      /\ helper.pc = "report_failed" => live.bin = helper.from
    BY DEF ServiceSurvives
  <2> QED BY DEF UpdateFits, HelperFits, HasVersions, Follows, ServiceFits, ServiceHolds, LiveFits, ProcessFits, At,
                 Both, Whole, Trying
<1> QED BY <1>1, UpdateStays, PTL

(* Wherever a swap is interrupted, a whole and labelled backup is there,   *)
(* and the next installation or rollback that reports success has repaired *)
(* what was left (performInstall, performManualRollback,                   *)
(* availableRollback).                                                     *)
THEOREM WayBackIsKept == Spec => []WayBack
<1>1. UpdateFits => WayBack
  BY DEF UpdateFits, WayFits, WayHolds, WaySpared, WayBack, At, Trying
<1> QED BY <1>1, UpdateStays, PTL

(* Every variable has its type; the version offered for a rollback is the  *)
(* one the backup holds; and a success is told only of the version that    *)
(* runs, unless a check or a result came over an update under way or every *)
(* write of the phase since the last success had failed                    *)
(* (availableRollback, reconcileInstallResult).                            *)
THEOREM ReportsAreKept == Spec => []ReportsAreTrue
<1>1. UpdateFits => OfferIsTrue
  BY DEF UpdateFits, WayFits, WayHolds, WaySpared, OfferIsTrue
<1>2. UpdateFits => SuccessIsTrue
  BY DEF UpdateFits, SuccessFits, SuccessHolds, SuccessSpared, MemoryFits, Fits, SuccessIsTrue
<1>3. UpdateFits => ReportsAreTrue
  BY <1>1, <1>2 DEF UpdateFits, ReportsAreTrue
<1> QED BY <1>3, UpdateStays, PTL
==============================================================================
