------------------------- MODULE ModuleRegistryProofs -------------------------
(* Proofs about the registry and the helper (ModuleRegistry), for every    *)
(* set of images and any number of faults, cancellations and deaths.       *)
EXTENDS ModuleRegistry, TLAPS

Called == core \in {"calling", "cleaning", "undoing"}
Asked  == CASE core = "cleaning" -> [task EXCEPT !.op = "commit"]
            [] core = "undoing"  -> [task EXCEPT !.op = "rollback"]
            [] OTHER -> task

(* One caller at a time: who is linked waits, and gets an answer to what   *)
(* it asked; once it has one, the helper is idle or works for somebody who *)
(* left.                                                                   *)
Linked ==
  /\ linked <=> Called /\ answer = "none"
  /\ linked => helper # "idle" /\ request = Asked
  /\ core \in {"committing", "compensating"} => answer = "ok" /\ task.op = "upgrade"
  /\ core \in {"cleaning", "undoing"} => task.op = "upgrade"
  /\ core # "idle" /\ answer = "ok" => helper = "idle"
  /\ core = "calling" => task.op \notin {"commit", "rollback"}

(* Which operation a step of the helper belongs to.                        *)
InstallSteps == {"inspecting", "creating", "starting", "verifying", "discarding", "resuming"}
UpgradeSteps == {"checking", "staging", "mounting", "unstaging", "stopping", "trying", "watching", "retiring",
                 "promoting", "confirming", "clearing", "undoing", "restoring", "reviving"}
SwapSteps    == {"halting", "dropping", "renaming", "relaunching", "rechecking"}
StepOfRequest ==
  /\ helper \in InstallSteps => request.op = "install"
  /\ helper \in UpgradeSteps => request.op = "upgrade"
  /\ helper \in SwapSteps => request.op \in {"upgrade", "rollback"}
  /\ helper = "pairing" => request.op \in {"commit", "rollback"}
  /\ helper = "forgetting" => request.op = "commit"
  /\ helper = "removing" => request.op = "remove"
  /\ helper = "controlling" => request.op \in {"start", "stop", "restart"}

(* The row does not change under the helper's feet.                        *)
ForRow(r) ==
  /\ row # NoRow
  /\ r.op = "install" => row = [image |-> r.image, status |-> "registered"]
  /\ r.op \in {"upgrade", "rollback"} => row = [image |-> r.old, status |-> "enabled"]
  /\ r.op = "commit" => row = [image |-> r.image, status |-> "enabled"]
  /\ r.op = "remove" => removing \/ row.status = "registered"

(* An upgrade names two images.                                            *)
Named == task.op = "upgrade" => task.image \in Images /\ task.old \in Images
RowStays ==
  /\ helper # "idle" => ForRow(request)
  /\ core = "calling" /\ answer # "error" => ForRow(task)
  /\ core = "committing" => row = [image |-> task.image, status |-> "enabled"]
  /\ core = "compensating" => row = [image |-> task.old, status |-> "enabled"]

(* What a request that succeeded has established.                          *)
Pair(r) == box["main"].image = r.image /\ box["previous"].image = r.old
Done(r) ==
  /\ r.op \in {"install", "start", "stop", "restart"} => Exists("main")
  /\ r.op = "remove" => ~Exists("main")
  /\ r.op = "upgrade" => Pair(r)
DoneIsSo ==
  /\ helper = "ok" => Done(request)
  /\ core = "calling" /\ answer = "ok" => Done(task)
  /\ core = "committing" => box["main"].image = task.image
  /\ core = "compensating" => box["previous"].image = task.old

(* Before a module is enabled no other image than its own runs.            *)
FirstIsOwn == row.status \in {"none", "registered"} => box["main"].image \in {0, row.image}

(* Where the recorded image is kept, step by step.                         *)
Kept(n) == box[n].image = row.image
KeptHere ==
  row.status \in {"enabled", "disabled"} /\ ~removing =>
    /\ Kept("main") \/ Kept("previous")
    /\ helper \in {"staging", "mounting", "unstaging", "stopping", "trying", "watching", "retiring"} => Kept("main")
    /\ helper \in {"promoting", "confirming", "halting", "dropping", "renaming"} => Kept("previous")
    /\ helper = "forgetting" => Kept("main")

(* What an upgrade that goes on has established.                           *)
UpgradeIsSo ==
  /\ helper \in {"mounting", "stopping", "trying", "watching", "retiring", "promoting"} =>
       box["candidate"].image \in {0, request.image}
  /\ helper \in {"staging", "mounting", "stopping", "trying", "watching", "retiring"} =>
       box["main"].image = request.old
  /\ helper = "promoting" => box["previous"].image = request.old
  /\ helper = "confirming" => Pair(request)

(* The inductive invariant: types, who waits for whom, and where images are.*)
KeepInv ==
  /\ TypeOK /\ Linked /\ StepOfRequest /\ RowStays /\ DoneIsSo /\ FirstIsOwn /\ KeptHere
  /\ UpgradeIsSo /\ Named

(* While Docker obeys and the helper lives.                                *)
OneRuns ==
  faults = 0 /\ deaths = 0 =>
    /\ ~Running("previous")
    /\ Running("candidate") => helper \in {"watching", "retiring", "promoting", "clearing", "undoing"}
    /\ helper \in {"trying", "watching", "retiring", "promoting", "clearing", "undoing"} => ~Running("main")

(* The containers by name.                                                 *)
Boxes == [Names -> Container \cup {Absent}]

(* Commands on existing containers keep box a table of containers.         *)
LEMMA DockerOps ==
  ASSUME box \in Boxes, NEW n \in Names
  PROVE  /\ Removed(n) \in Boxes
         /\ Exists(n) => Started(n) \in Boxes /\ Stopped(n) \in Boxes
         /\ \A m \in Names : Exists(m) => Renamed(m, n) \in Boxes
         /\ \A i \in Images \cup {0} : [box EXCEPT ![n] = Created(i)] \in Boxes
<1> USE DEF Boxes
<1>1. box[n] \in Container \cup {Absent}
  OBVIOUS
<1>2. Absent \in Container \cup {Absent}
  OBVIOUS
<1>3. Removed(n) \in Boxes
  BY <1>2 DEF Removed
<1>4. ASSUME Exists(n) PROVE Started(n) \in Boxes /\ Stopped(n) \in Boxes
  <2>1. box[n] \in Container
    BY <1>1, <1>4 DEF Exists
  <2>2. [box[n] EXCEPT !.up = TRUE] \in Container /\ [box[n] EXCEPT !.up = FALSE] \in Container
    BY <2>1 DEF Container
  <2> QED
    BY <2>2 DEF Started, Stopped
<1>5. ASSUME NEW m \in Names, Exists(m) PROVE Renamed(m, n) \in Boxes
  BY <1>2 DEF Renamed
<1>6. ASSUME NEW i \in Images \cup {0} PROVE [box EXCEPT ![n] = Created(i)] \in Boxes
  BY DEF Created, Container, Absent
<1> QED
  BY <1>3, <1>4, <1>5, <1>6

(* What a step does to the images: nothing, n gets the requested one, n    *)
(* loses its own, m gives its own to n.                                    *)
SameImages == \A n \in Names : box'[n].image = box[n].image
Made(n)    == box'[n].image = request.image /\ \A m \in Names \ {n} : box'[m].image = box[m].image
Gone(n)    == box'[n].image = 0 /\ \A m \in Names \ {n} : box'[m].image = box[m].image
Moved(m, n) == /\ box'[n].image = box[m].image /\ box'[m].image = 0
               /\ \A k \in Names \ {m, n} : box'[k].image = box[k].image

(* What each Docker command does to the images.                            *)
LEMMA ImagesAfter ==
  ASSUME box \in Boxes, NEW n \in Names
  PROVE  /\ box' = box => SameImages
         /\ box' = Started(n) => SameImages
         /\ box' = Stopped(n) => SameImages
         /\ box' = Removed(n) => Gone(n)
         /\ box' = [box EXCEPT ![n] = Created(request.image)] => Made(n)
         /\ \A m \in Names : m # n /\ box' = Renamed(m, n) => Moved(m, n)
<1> USE DEF Boxes
<1>0. \A m \in Names : box[m] \in Container \cup {Absent}
  OBVIOUS
<1>1. box' = box => SameImages
  BY DEF SameImages
<1>2. box' = Started(n) => SameImages
  <2>1. [box[n] EXCEPT !.up = TRUE].image = box[n].image
    BY <1>0 DEF Container, Absent
  <2> QED BY <2>1 DEF SameImages, Started
<1>3. box' = Stopped(n) => SameImages
  <2>1. [box[n] EXCEPT !.up = FALSE].image = box[n].image
    BY <1>0 DEF Container, Absent
  <2> QED BY <2>1 DEF SameImages, Stopped
<1>4. box' = Removed(n) => Gone(n)
  BY DEF Gone, Removed, Absent
<1>5. box' = [box EXCEPT ![n] = Created(request.image)] => Made(n)
  BY DEF Made, Created
<1>6. \A m \in Names : m # n /\ box' = Renamed(m, n) => Moved(m, n)
  BY DEF Moved, Renamed, Absent
<1> QED
  BY <1>1, <1>2, <1>3, <1>4, <1>5, <1>6

(* A name is taken when there is an image under it.                        *)
LEMMA ExistsIsImage ==
  ASSUME box \in Boxes, NEW n \in Names
  PROVE  Exists(n) <=> box[n].image # 0
BY HelperAssumption DEF Boxes, Exists, Absent, Container

Common == <<row, core, task, removing, budget>>

(* A step that runs one Docker command.                                    *)
CommandStep == Installing \/ Control \/ Remove \/ Upgrading \/ Settling

(* The commands of the helper keep the types.                              *)
LEMMA TypeHelper ==
  ASSUME HelperTypeOK, CommandStep
  PROVE  HelperTypeOK'
<1>r. /\ [box EXCEPT !["main"] = Created(request.image)] \in Boxes
      /\ [box EXCEPT !["candidate"] = Created(request.image)] \in Boxes
  BY DockerOps DEF Requests, HelperTypeOK, Boxes, Names
<1> USE HelperAssumption, DockerOps DEF HelperTypeOK, Check, Command, Frame, Fault, NoFault,
  Names, Steps, Boxes, CanRename, Outcome
<1>1. CASE Inspect
  BY <1>1, <1>r DEF Inspect
<1>2. CASE CreateMain
  BY <1>2, <1>r DEF CreateMain
<1>3. CASE StartMain
  BY <1>3, <1>r DEF StartMain
<1>4. CASE VerifyMain
  BY <1>4, <1>r DEF VerifyMain
<1>5. CASE Discard
  BY <1>5, <1>r DEF Discard
<1>6. CASE Resume
  BY <1>6, <1>r DEF Resume
<1>7. CASE Control
  BY <1>7, <1>r DEF Control
<1>8. CASE Remove
  BY <1>8, <1>r DEF Remove
<1>9. CASE CheckSource
  BY <1>9, <1>r DEF CheckSource
<1>10. CASE StageCandidate
  BY <1>10, <1>r DEF StageCandidate
<1>11. CASE VerifyMount
  BY <1>11, <1>r DEF VerifyMount
<1>12. CASE Unstage
  BY <1>12, <1>r DEF Unstage
<1>13. CASE StopOld
  BY <1>13, <1>r DEF StopOld
<1>14. CASE StartCandidate
  BY <1>14, <1>r DEF StartCandidate
<1>15. CASE AwaitHealthy
  BY <1>15, <1>r DEF AwaitHealthy
<1>16. CASE RetireOld
  BY <1>16, <1>r DEF RetireOld
<1>17. CASE Promote
  BY <1>17, <1>r DEF Promote
<1>18. CASE Confirm
  BY <1>18, <1>r DEF Confirm
<1>19. CASE Clear
  BY <1>19, <1>r DEF Clear
<1>20. CASE Undo
  BY <1>20, <1>r DEF Undo
<1>21. CASE Restore
  BY <1>21, <1>r DEF Restore
<1>22. CASE Revive
  BY <1>22, <1>r DEF Revive
<1>23. CASE VerifyPair
  BY <1>23, <1>r DEF VerifyPair
<1>24. CASE Forget
  BY <1>24, <1>r DEF Forget
<1>25. CASE Halt
  BY <1>25, <1>r DEF Halt
<1>26. CASE Drop
  BY <1>26, <1>r DEF Drop
<1>27. CASE Rename
  BY <1>27, <1>r DEF Rename
<1>28. CASE Relaunch
  BY <1>28, <1>r DEF Relaunch
<1>29. CASE Recheck
  BY <1>29, <1>r DEF Recheck
<1> QED
  BY <1>1, <1>2, <1>3, <1>4, <1>5, <1>6, <1>7, <1>8, <1>9, <1>10, <1>11, <1>12, <1>13, <1>14,
    <1>15, <1>16, <1>17, <1>18, <1>19, <1>20, <1>21, <1>22, <1>23, <1>24, <1>25, <1>26, <1>27,
    <1>28, <1>29 DEF CommandStep, Installing, Upgrading, Settling

(* The helper goes on with the same request.                               *)
Moves ==
  /\ helper # "idle" /\ helper' # "idle"
  /\ UNCHANGED <<request, linked, cancelled, answer>>

(* A command moves the helper on, never to idle, within its operation;     *)
(* request, answer and connection stay.                                    *)
LEMMA HelperMoves ==
  ASSUME request.op \in Operations, StepOfRequest, CommandStep
  PROVE  Moves /\ StepOfRequest'
<1> USE DEF Check, Command, Frame, StepOfRequest, InstallSteps, UpgradeSteps, SwapSteps,
  Outcome, Leaving, Moves, Operations
<1>1. CASE Inspect
  BY <1>1 DEF Inspect
<1>2. CASE CreateMain
  BY <1>2 DEF CreateMain
<1>3. CASE StartMain
  BY <1>3 DEF StartMain
<1>4. CASE VerifyMain
  BY <1>4 DEF VerifyMain
<1>5. CASE Discard
  BY <1>5 DEF Discard
<1>6. CASE Resume
  BY <1>6 DEF Resume
<1>7. CASE Control
  BY <1>7 DEF Control
<1>8. CASE Remove
  BY <1>8 DEF Remove
<1>9. CASE CheckSource
  BY <1>9 DEF CheckSource
<1>10. CASE StageCandidate
  BY <1>10 DEF StageCandidate
<1>11. CASE VerifyMount
  BY <1>11 DEF VerifyMount
<1>12. CASE Unstage
  BY <1>12 DEF Unstage
<1>13. CASE StopOld
  BY <1>13 DEF StopOld
<1>14. CASE StartCandidate
  BY <1>14 DEF StartCandidate
<1>15. CASE AwaitHealthy
  BY <1>15 DEF AwaitHealthy
<1>16. CASE RetireOld
  BY <1>16 DEF RetireOld
<1>17. CASE Promote
  BY <1>17 DEF Promote
<1>18. CASE Confirm
  BY <1>18 DEF Confirm
<1>19. CASE Clear
  BY <1>19 DEF Clear
<1>20. CASE Undo
  BY <1>20 DEF Undo
<1>21. CASE Restore
  BY <1>21 DEF Restore
<1>22. CASE Revive
  BY <1>22 DEF Revive
<1>23. CASE VerifyPair
  BY <1>23 DEF VerifyPair
<1>24. CASE Forget
  BY <1>24 DEF Forget
<1>25. CASE Halt
  BY <1>25 DEF Halt
<1>26. CASE Drop
  BY <1>26 DEF Drop
<1>27. CASE Rename
  BY <1>27 DEF Rename
<1>28. CASE Relaunch
  BY <1>28 DEF Relaunch
<1>29. CASE Recheck
  BY <1>29 DEF Recheck
<1> QED
  BY <1>1, <1>2, <1>3, <1>4, <1>5, <1>6, <1>7, <1>8, <1>9, <1>10, <1>11, <1>12, <1>13, <1>14,
    <1>15, <1>16, <1>17, <1>18, <1>19, <1>20, <1>21, <1>22, <1>23, <1>24, <1>25, <1>26, <1>27,
    <1>28, <1>29 DEF CommandStep, Installing, Upgrading, Settling

(* The steps at which images change, and how.                              *)
Changes ==
  \/ SameImages
  \/ helper = "creating" /\ Made("main") /\ ~Exists("main")
  \/ helper = "staging" /\ Made("candidate")
  \/ helper \in {"discarding", "removing", "dropping"} /\ Gone("main")
  \/ helper \in {"unstaging", "clearing", "undoing"} /\ Gone("candidate")
  \/ helper = "forgetting" /\ Gone("previous")
  \/ helper = "retiring" /\ Moved("main", "previous")
  \/ helper = "promoting" /\ Moved("candidate", "main") /\ ~Exists("main")
  \/ helper = "restoring" /\ Moved("previous", "main") /\ ~Exists("main")
  \/ helper = "renaming" /\ Moved("previous", "main")

(* How the steps that need something are reached.                          *)
Entries ==
  /\ helper' = "ok" =>
       \/ helper \in {"verifying", "resuming", "controlling"} /\ Exists("main")
       \/ helper = "removing" /\ Gone("main")
       \/ helper \in {"confirming", "forgetting"}
       \/ helper = "rechecking" /\ request.op = "rollback"
  /\ helper' = "staging" => helper = "checking" /\ box["main"].image = request.old /\ ~Exists("candidate")
  /\ helper' = "mounting" => helper = "staging" /\ Made("candidate")
  /\ helper' \in {"unstaging", "stopping", "trying", "watching", "retiring"} =>
       helper \in {"mounting", "stopping", "trying", "watching"}
  /\ helper' = "promoting" => helper = "retiring" /\ Moved("main", "previous")
  /\ helper' = "confirming" => helper = "promoting" /\ Exists("candidate") /\ Moved("candidate", "main")
  /\ helper' = "halting" => helper = "confirming" \/ (helper = "pairing" /\ Paired /\ request.op # "commit")
  /\ helper' = "dropping" => helper = "halting"
  /\ helper' = "renaming" => helper = "dropping"
  /\ helper' = "forgetting" => helper = "pairing" /\ Paired /\ request.op = "commit"

(* Every command is one of these changes and obeys these entries.          *)
LEMMA HelperEffect ==
  ASSUME box \in Boxes, CommandStep
  PROVE  Changes /\ Entries
<1>a. box' = box => SameImages
  BY DEF SameImages
<1>b. \A n \in Names : box' = Started(n) => SameImages
  BY ImagesAfter
<1>c. \A n \in Names : box' = Stopped(n) => SameImages
  BY ImagesAfter
<1>d. \A n \in Names : box' = Removed(n) => Gone(n)
  BY ImagesAfter
<1>e. box' = [box EXCEPT !["main"] = Created(request.image)] => Made("main")
  BY ImagesAfter DEF Names
<1>f. box' = [box EXCEPT !["candidate"] = Created(request.image)] => Made("candidate")
  BY ImagesAfter DEF Names
<1>g. \A m, n \in Names : m # n /\ box' = Renamed(m, n) => Moved(m, n)
  BY ImagesAfter
<1> USE DEF Check, Command, Changes, Entries
<1>1. CASE Inspect
  BY <1>1, <1>a, <1>b, <1>c, <1>d, <1>e, <1>f, <1>g DEF Names, Inspect
<1>2. CASE CreateMain
  BY <1>2, <1>a, <1>b, <1>c, <1>d, <1>e, <1>f, <1>g DEF Names, CreateMain
<1>3. CASE StartMain
  BY <1>3, <1>a, <1>b, <1>c, <1>d, <1>e, <1>f, <1>g DEF Names, StartMain
<1>4. CASE VerifyMain
  BY <1>4, <1>a, <1>b, <1>c, <1>d, <1>e, <1>f, <1>g DEF Names, VerifyMain, Running
<1>5. CASE Discard
  BY <1>5, <1>a, <1>b, <1>c, <1>d, <1>e, <1>f, <1>g DEF Names, Discard
<1>6. CASE Resume
  BY <1>6, <1>a, <1>b, <1>c, <1>d, <1>e, <1>f, <1>g DEF Names, Resume
<1>7. CASE Control
  BY <1>7, <1>a, <1>b, <1>c, <1>d, <1>e, <1>f, <1>g DEF Names, Control
<1>8. CASE Remove
  BY <1>8, <1>a, <1>b, <1>c, <1>d, <1>e, <1>f, <1>g DEF Names, Remove
<1>9. CASE CheckSource
  BY <1>9, <1>a, <1>b, <1>c, <1>d, <1>e, <1>f, <1>g DEF Names, CheckSource, Running
<1>10. CASE StageCandidate
  BY <1>10, <1>a, <1>b, <1>c, <1>d, <1>e, <1>f, <1>g DEF Names, StageCandidate
<1>11. CASE VerifyMount
  BY <1>11, <1>a, <1>b, <1>c DEF Names, VerifyMount
<1>12. CASE Unstage
  BY <1>12, <1>a, <1>b, <1>c, <1>d, <1>e, <1>f, <1>g DEF Names, Unstage
<1>13. CASE StopOld
  BY <1>13, <1>a, <1>b, <1>c DEF Names, StopOld
<1>14. CASE StartCandidate
  BY <1>14, <1>a, <1>b, <1>c DEF Names, StartCandidate
<1>15. CASE AwaitHealthy
  BY <1>15, <1>a, <1>b, <1>c DEF Names, AwaitHealthy
<1>16. CASE RetireOld
  BY <1>16, <1>a, <1>b, <1>c, <1>d, <1>e, <1>f, <1>g DEF Names, RetireOld, CanRename
<1>17. CASE Promote
  BY <1>17, <1>a, <1>b, <1>c, <1>d, <1>e, <1>f, <1>g DEF Names, Promote, CanRename
<1>18. CASE Confirm
  BY <1>18, <1>a DEF Confirm
<1>19. CASE Clear
  BY <1>19, <1>a, <1>b, <1>c, <1>d, <1>e, <1>f, <1>g DEF Names, Clear
<1>20. CASE Undo
  BY <1>20, <1>a, <1>b, <1>c, <1>d, <1>e, <1>f, <1>g DEF Names, Undo
<1>21. CASE Restore
  BY <1>21, <1>a, <1>b, <1>c, <1>d, <1>e, <1>f, <1>g DEF Names, Restore, CanRename
<1>22. CASE Revive
  BY <1>22, <1>a, <1>b, <1>c, <1>d, <1>e, <1>f, <1>g DEF Names, Revive
<1>23. CASE VerifyPair
  BY <1>23, <1>a, <1>b, <1>c, <1>d, <1>e, <1>f, <1>g DEF Names, VerifyPair
<1>24. CASE Forget
  BY <1>24, <1>a, <1>b, <1>c, <1>d, <1>e, <1>f, <1>g DEF Names, Forget
<1>25. CASE Halt
  BY <1>25, <1>a, <1>b, <1>c DEF Names, Halt
<1>26. CASE Drop
  BY <1>26, <1>a, <1>b, <1>c, <1>d, <1>e, <1>f, <1>g DEF Names, Drop
<1>27. CASE Rename
  BY <1>27, <1>a, <1>b, <1>c, <1>d, <1>e, <1>f, <1>g DEF Names, Rename, CanRename
<1>28. CASE Relaunch
  BY <1>28, <1>a, <1>b, <1>c, <1>d, <1>e, <1>f, <1>g DEF Names, Relaunch
<1>29. CASE Recheck
  BY <1>29, <1>a, <1>b, <1>c, <1>d, <1>e, <1>f, <1>g DEF Names, Recheck, Outcome
<1> QED
  BY <1>1, <1>2, <1>3, <1>4, <1>5, <1>6, <1>7, <1>8, <1>9, <1>10, <1>11, <1>12, <1>13, <1>14,
    <1>15, <1>16, <1>17, <1>18, <1>19, <1>20, <1>21, <1>22, <1>23, <1>24, <1>25, <1>26, <1>27,
    <1>28, <1>29 DEF CommandStep, Installing, Upgrading, Settling

(* A command of the helper keeps what the invariant says of images.        *)
LEMMA HelperKeeps ==
  ASSUME KeepInv, CommandStep, UNCHANGED Common
  PROVE  DoneIsSo' /\ FirstIsOwn' /\ KeptHere' /\ UpgradeIsSo'
<1>a. box \in Boxes /\ HelperTypeOK /\ StepOfRequest
  BY DEF KeepInv, TypeOK, HelperTypeOK, Boxes
<1>b. UNCHANGED <<row, core, task, removing, request, linked, cancelled, answer>> /\ helper # "idle"
  BY <1>a, HelperMoves DEF Moves, HelperTypeOK, Requests, Common
<1>c. Changes /\ Entries /\ StepOfRequest'
  BY <1>a, HelperEffect, HelperMoves DEF HelperTypeOK, Requests
<1>d. \A n \in Names : Exists(n) <=> box[n].image # 0
  BY <1>a, ExistsIsImage
<1>e. \A n \in Names : Exists(n)' <=> box'[n].image # 0
  <2>1. box' \in Boxes
    BY <1>a, TypeHelper DEF HelperTypeOK, Boxes
  <2> QED
    BY <2>1, HelperAssumption DEF Boxes, Exists, Absent, Container
<1>f. ForRow(request)
  BY <1>b DEF KeepInv, RowStays
<1>1. FirstIsOwn'
  BY <1>a, <1>b, <1>c, <1>d, <1>f DEF KeepInv, FirstIsOwn, Changes, SameImages, Made, Gone,
    Moved, Names, StepOfRequest, InstallSteps, UpgradeSteps, SwapSteps, ForRow
<1>2. KeptHere'
  BY <1>a, <1>b, <1>c, <1>d, <1>f DEF KeepInv, KeptHere, Kept, Changes, Entries, SameImages,
    Made, Gone, Moved, Names, StepOfRequest, InstallSteps, UpgradeSteps, SwapSteps, ForRow,
    UpgradeIsSo, Pair, Paired
<1>3. UpgradeIsSo'
  <2>1. UpgradeIsSo
    BY DEF KeepInv
  <2> USE <2>1, <1>a, <1>b, <1>c DEF UpgradeIsSo, Changes, Entries, SameImages, Made, Gone,
    Moved, Names
  <2>2. helper' \in {"mounting", "stopping", "trying", "watching", "retiring", "promoting"} =>
          box'["candidate"].image \in {0, request.image}
    <3>1. CASE helper' = "mounting"
      BY <3>1
    <3>2. CASE helper' \in {"stopping", "trying", "watching", "retiring"}
      BY <3>2
    <3>3. CASE helper' = "promoting"
      BY <3>3
    <3> QED
      BY <3>1, <3>2, <3>3
  <2>3. helper' \in {"staging", "mounting", "stopping", "trying", "watching", "retiring"} =>
          box'["main"].image = request.old
    OBVIOUS
  <2>4. helper' = "promoting" => box'["previous"].image = request.old
    OBVIOUS
  <2>5. helper' = "confirming" => Pair(request)'
    BY <1>d DEF Pair
  <2> QED
    BY <2>2, <2>3, <2>4, <2>5
<1>4. ASSUME helper' = "ok" PROVE Done(request)'
  <2> USE <1>a, <1>b, <1>c, <1>e, <1>4 DEF Names, Changes, Entries, StepOfRequest
  <2>1. CASE helper \in {"verifying", "resuming", "controlling"} /\ Exists("main")
    <3>1. SameImages
      BY <2>1
    <3>2. request.op \in {"install", "start", "stop", "restart"}
      BY <2>1 DEF InstallSteps
    <3> QED
      BY <2>1, <3>1, <3>2, <1>d DEF Done, SameImages
  <2>2. CASE helper = "removing" /\ Gone("main")
    BY <2>2 DEF Done, Gone
  <2>3. CASE helper = "confirming"
    <3>1. SameImages /\ request.op = "upgrade" /\ Pair(request)
      BY <2>3 DEF UpgradeSteps, KeepInv, UpgradeIsSo
    <3> QED
      BY <3>1 DEF Done, Pair, SameImages
  <2>4. CASE helper = "forgetting"
    BY <2>4 DEF Done
  <2>5. CASE helper = "rechecking" /\ request.op = "rollback"
    BY <2>5 DEF Done
  <2> QED
    BY <2>1, <2>2, <2>3, <2>4, <2>5
<1>5. DoneIsSo'
  BY <1>a, <1>b, <1>c, <1>d, <1>e, <1>4 DEF KeepInv, DoneIsSo, Linked, Called
<1> QED
  BY <1>1, <1>2, <1>3, <1>4, <1>5

(* A call finds the helper idle and starts it, or is refused.              *)
LEMMA AskDoes ==
  ASSUME NEW r \in Requests, HelperTypeOK, Ask(r)
  PROVE  /\ HelperTypeOK' /\ box' = box
         /\ \/ /\ helper = "idle" /\ helper' # "idle" /\ request' = r
               /\ helper' = FirstStep(r.op)
               /\ linked' = TRUE /\ answer' = "none"
            \/ /\ helper # "idle" /\ answer' = "error"
               /\ UNCHANGED <<helper, request, linked>>
<1>1. FirstStep(r.op) \in Steps \ {"idle"}
  BY DEF FirstStep, Steps
<1>2. CASE helper = "idle"
  <2>1. /\ helper' = FirstStep(r.op) /\ request' = r /\ linked' = TRUE /\ cancelled' = FALSE
        /\ answer' = "none" /\ box' = box /\ faults' = faults
    BY <1>2 DEF Ask
  <2> QED BY <1>1, <1>2, <2>1 DEF HelperTypeOK
<1>3. CASE helper # "idle"
  BY <1>3 DEF HelperTypeOK, Ask
<1> QED BY <1>2, <1>3

(* The steps with which an operation begins.                               *)
FirstSteps == {"inspecting", "checking", "pairing", "removing", "controlling"}

(* The first step belongs to the operation.                                *)
LEMMA FirstStepFits ==
  ASSUME NEW op \in Operations
  PROVE  /\ FirstStep(op) \in FirstSteps
         /\ FirstStep(op) = "inspecting" => op = "install"
         /\ FirstStep(op) = "checking" => op = "upgrade"
         /\ FirstStep(op) = "pairing" => op \in {"commit", "rollback"}
         /\ FirstStep(op) = "removing" => op = "remove"
         /\ FirstStep(op) = "controlling" => op \in {"start", "stop", "restart"}
BY DEF FirstStep, Operations, FirstSteps

(* The steps of the registry, and interruptions, keep the invariant.       *)
LEMMA CoreKeeps ==
  ASSUME KeepInv, Next, ~HelperStep
  PROVE  KeepInv'
<1>a. /\ HelperTypeOK /\ box \in Boxes /\ row \in Row \cup {NoRow} /\ task \in Requests /\ removing \in BOOLEAN
      /\ request \in Requests
  BY DEF KeepInv, TypeOK, HelperTypeOK, Boxes
<1>b. \A n \in Names : Exists(n) <=> box[n].image # 0
  BY <1>a, ExistsIsImage
<1>c. MaxRejects \in Nat /\ MaxHangUps \in Nat /\ MaxCrashes \in Nat /\ MaxDeaths \in Nat
  BY RegistryAssumption
<1> USE <1>a, <1>b, <1>c, HelperAssumption DEF KeepInv
<1>1. ASSUME NEW i \in Images, InstallManifest(i) PROVE KeepInv'
  <2> DEFINE r == [op |-> "install", image |-> i, old |-> 0]
  <2>1. r \in Requests /\ r.op \in Operations
    BY <1>1 DEF InstallManifest, Requests, Operations, Row, NoRow
  <2>2. Ask(r) /\ UNCHANGED budget
    BY <1>1 DEF InstallManifest, Call
  <2>3. /\ HelperTypeOK' /\ box' = box
        /\ \/ /\ helper = "idle" /\ helper' # "idle" /\ request' = r
              /\ helper' = FirstStep(r.op)
              /\ linked' = TRUE /\ answer' = "none"
           \/ /\ helper # "idle" /\ answer' = "error"
              /\ UNCHANGED <<helper, request, linked>>
    BY <2>1, <2>2, AskDoes
  <2>4. TypeOK'
    <3>1. row' \in Row
      BY <1>1 DEF InstallManifest, Row
    <3> QED
      BY <1>1, <2>1, <2>3, <3>1 DEF InstallManifest, Call, TypeOK, budget
  <2>5. FirstStep(r.op) \in FirstSteps
    BY <2>1, FirstStepFits
  <2>6. StepOfRequest'
    BY <2>1, <2>3, <2>5, FirstStepFits DEF StepOfRequest, FirstSteps, InstallSteps,
      UpgradeSteps, SwapSteps
  <2>7. Linked'
    BY <1>1, <2>3, <2>5 DEF InstallManifest, Call, Linked, Called, Asked, FirstSteps
  <2>8. RowStays'
    <3>1. r.op = "install" /\ r.image = i
      BY DEF Requests
    <3>2. row' = [image |-> i, status |-> "registered"] /\ row' # NoRow
      BY <1>1 DEF InstallManifest, Call, Row, NoRow
    <3>3. core' \notin {"committing", "compensating"} /\ (core' = "calling" => task' = r)
      BY <1>1 DEF InstallManifest, Call
    <3> HIDE DEF r
    <3>4. helper # "idle" => ForRow(request)'
      BY <1>1, <2>3, <3>2 DEF InstallManifest, Call, RowStays, ForRow
    <3> QED
      BY <2>3, <3>1, <3>2, <3>3, <3>4 DEF RowStays, ForRow
  <2>11. Named'
    BY <1>1, <2>3, <2>5 DEF InstallManifest, Call, Named, NoRow
  <2>9. FirstIsOwn'
    BY <1>1, <2>3, <2>5 DEF InstallManifest, Call, FirstIsOwn, FirstSteps, NoRow
  <2>12. KeptHere'
    BY <1>1, <2>3, <2>5 DEF InstallManifest, Call, FirstIsOwn, KeptHere, Kept, FirstSteps, NoRow
  <2>10. DoneIsSo' /\ UpgradeIsSo'
    BY <1>1, <2>3, <2>5 DEF InstallManifest, Call, DoneIsSo, Done, Pair, UpgradeIsSo,
      FirstSteps, Exists
  <2> HIDE DEF r
  <2> QED
    BY <2>4, <2>6, <2>7, <2>8, <2>9, <2>10, <2>11, <2>12
<1>2. ASSUME NEW i \in Images, UpgradeManifest(i) PROVE KeepInv'
  <2> DEFINE r == [op |-> "upgrade", image |-> i, old |-> row.image]
  <2>1. r \in Requests /\ r.op \in Operations
    BY <1>2 DEF UpgradeManifest, Requests, Operations, Row, NoRow
  <2>2. Ask(r) /\ UNCHANGED budget
    BY <1>2 DEF UpgradeManifest, Call
  <2>3. /\ HelperTypeOK' /\ box' = box
        /\ \/ /\ helper = "idle" /\ helper' # "idle" /\ request' = r
              /\ helper' = FirstStep(r.op)
              /\ linked' = TRUE /\ answer' = "none"
           \/ /\ helper # "idle" /\ answer' = "error"
              /\ UNCHANGED <<helper, request, linked>>
    BY <2>1, <2>2, AskDoes
  <2>4. TypeOK'
    BY <1>2, <2>1, <2>3 DEF UpgradeManifest, Call, TypeOK, budget, Row, NoRow
  <2>5. FirstStep(r.op) \in FirstSteps
    BY <2>1, FirstStepFits
  <2>6. StepOfRequest'
    BY <2>1, <2>3, <2>5, FirstStepFits DEF StepOfRequest, FirstSteps, InstallSteps,
      UpgradeSteps, SwapSteps
  <2>7. Linked'
    BY <1>2, <2>3, <2>5 DEF UpgradeManifest, Call, Linked, Called, Asked, FirstSteps
  <2>8. RowStays'
    <3>1. r.op = "upgrade" /\ r.image = i /\ r.old = row.image
      BY DEF Requests
    <3>2. row' = row /\ row = [image |-> row.image, status |-> "enabled"] /\ row # NoRow
      BY <1>2 DEF UpgradeManifest, Call, Row, NoRow
    <3>3. core' \notin {"committing", "compensating"} /\ (core' = "calling" => task' = r)
      BY <1>2 DEF UpgradeManifest, Call
    <3> HIDE DEF r
    <3>4. helper # "idle" => ForRow(request)'
      BY <1>2, <2>3, <3>2 DEF UpgradeManifest, Call, RowStays, ForRow
    <3> QED
      BY <2>3, <3>1, <3>2, <3>3, <3>4 DEF RowStays, ForRow
  <2>11. Named'
    <3>1. row.image \in Images
      BY <1>2 DEF UpgradeManifest, Row, NoRow
    <3> QED
      BY <1>2, <3>1 DEF UpgradeManifest, Call, Named
  <2>9. FirstIsOwn'
    BY <1>2, <2>3, <2>5 DEF UpgradeManifest, Call, FirstIsOwn, FirstSteps, NoRow
  <2>12. KeptHere'
    BY <1>2, <2>3, <2>5 DEF UpgradeManifest, Call, FirstIsOwn, KeptHere, Kept, FirstSteps, NoRow
  <2>10. DoneIsSo' /\ UpgradeIsSo'
    BY <1>2, <2>3, <2>5 DEF UpgradeManifest, Call, DoneIsSo, Done, Pair, UpgradeIsSo,
      FirstSteps, Exists
  <2> HIDE DEF r
  <2> QED
    BY <2>4, <2>6, <2>7, <2>8, <2>9, <2>10, <2>11, <2>12
<1>3. ASSUME NEW op \in {"start", "stop", "restart"}, ControlModule(op) PROVE KeepInv'
  <2> DEFINE r == [op |-> op, image |-> 0, old |-> 0]
  <2>1. r \in Requests /\ r.op \in Operations
    BY <1>3 DEF ControlModule, Requests, Operations, Row, NoRow
  <2>2. Ask(r) /\ UNCHANGED budget
    BY <1>3 DEF ControlModule, Call
  <2>3. /\ HelperTypeOK' /\ box' = box
        /\ \/ /\ helper = "idle" /\ helper' # "idle" /\ request' = r
              /\ helper' = FirstStep(r.op)
              /\ linked' = TRUE /\ answer' = "none"
           \/ /\ helper # "idle" /\ answer' = "error"
              /\ UNCHANGED <<helper, request, linked>>
    BY <2>1, <2>2, AskDoes
  <2>4. TypeOK'
    BY <1>3, <2>1, <2>3 DEF ControlModule, Call, TypeOK, budget, Row, NoRow
  <2>5. FirstStep(r.op) \in FirstSteps
    BY <2>1, FirstStepFits
  <2>6. StepOfRequest'
    BY <2>1, <2>3, <2>5, FirstStepFits DEF StepOfRequest, FirstSteps, InstallSteps,
      UpgradeSteps, SwapSteps
  <2>7. Linked'
    BY <1>3, <2>3, <2>5 DEF ControlModule, Call, Linked, Called, Asked, FirstSteps
  <2>8. RowStays'
    BY <1>3, <2>3, <2>5 DEF ControlModule, Call, RowStays, ForRow, FirstSteps, Linked, Called
  <2>11. Named'
    BY <1>3, <2>3, <2>5 DEF ControlModule, Call, Named, NoRow
  <2>9. FirstIsOwn'
    BY <1>3, <2>3, <2>5 DEF ControlModule, Call, FirstIsOwn, FirstSteps, NoRow
  <2>12. KeptHere'
    BY <1>3, <2>3, <2>5 DEF ControlModule, Call, FirstIsOwn, KeptHere, Kept, FirstSteps, NoRow
  <2>10. DoneIsSo' /\ UpgradeIsSo'
    BY <1>3, <2>3, <2>5 DEF ControlModule, Call, DoneIsSo, Done, Pair, UpgradeIsSo, FirstSteps,
      Exists
  <2> HIDE DEF r
  <2> QED
    BY <2>4, <2>6, <2>7, <2>8, <2>9, <2>10, <2>11, <2>12
<1>4. ASSUME RemoveModule PROVE KeepInv'
  <2> DEFINE r == [op |-> "remove", image |-> 0, old |-> 0]
  <2>1. r \in Requests /\ r.op \in Operations
    BY <1>4 DEF RemoveModule, Requests, Operations, Row, NoRow
  <2>2. Ask(r) /\ UNCHANGED budget
    BY <1>4 DEF RemoveModule, Call
  <2>3. /\ HelperTypeOK' /\ box' = box
        /\ \/ /\ helper = "idle" /\ helper' # "idle" /\ request' = r
              /\ helper' = FirstStep(r.op)
              /\ linked' = TRUE /\ answer' = "none"
           \/ /\ helper # "idle" /\ answer' = "error"
              /\ UNCHANGED <<helper, request, linked>>
    BY <2>1, <2>2, AskDoes
  <2>4. TypeOK'
    BY <1>4, <2>1, <2>3 DEF RemoveModule, Call, TypeOK, budget, Row, NoRow
  <2>5. FirstStep(r.op) \in FirstSteps
    BY <2>1, FirstStepFits
  <2>6. StepOfRequest'
    BY <2>1, <2>3, <2>5, FirstStepFits DEF StepOfRequest, FirstSteps, InstallSteps,
      UpgradeSteps, SwapSteps
  <2>7. Linked'
    BY <1>4, <2>3, <2>5 DEF RemoveModule, Call, Linked, Called, Asked, FirstSteps
  <2>8. RowStays'
    BY <1>4, <2>3, <2>5 DEF RemoveModule, Call, RowStays, ForRow, FirstSteps, Linked, Called
  <2>11. Named'
    BY <1>4, <2>3, <2>5 DEF RemoveModule, Call, Named, NoRow
  <2>9. FirstIsOwn'
    BY <1>4, <2>3, <2>5 DEF RemoveModule, Call, FirstIsOwn, FirstSteps, NoRow
  <2>12. KeptHere'
    BY <1>4, <2>3, <2>5 DEF RemoveModule, Call, FirstIsOwn, KeptHere, Kept, FirstSteps, NoRow
  <2>10. DoneIsSo' /\ UpgradeIsSo'
    BY <1>4, <2>3, <2>5 DEF RemoveModule, Call, DoneIsSo, Done, Pair, UpgradeIsSo, FirstSteps,
      Exists
  <2> HIDE DEF r
  <2> QED
    BY <2>4, <2>6, <2>7, <2>8, <2>9, <2>10, <2>11, <2>12
<1>5. ASSUME Refused PROVE KeepInv'
  <2>4. TypeOK'
    BY <1>5 DEF Refused, Answered, TypeOK, HelperTypeOK, helperVars, budget, Row, NoRow
  <2>6. StepOfRequest'
    BY <1>5 DEF Refused, Answered, helperVars, StepOfRequest, InstallSteps, UpgradeSteps,
      SwapSteps
  <2>7. Linked'
    BY <1>5 DEF Refused, Answered, helperVars, Linked, Called, Asked
  <2>8. RowStays'
    BY <1>5 DEF Refused, Answered, helperVars, RowStays, ForRow, Linked, Called
  <2>11. Named'
    BY <1>5 DEF Refused, Answered, helperVars, Named
  <2>9. FirstIsOwn'
    BY <1>5 DEF Refused, Answered, helperVars, FirstIsOwn, NoRow
  <2>12. KeptHere'
    BY <1>5 DEF Refused, Answered, helperVars, FirstIsOwn, KeptHere, Kept, NoRow
  <2>10. DoneIsSo' /\ UpgradeIsSo'
    BY <1>5 DEF Refused, Answered, helperVars, DoneIsSo, Done, Pair, UpgradeIsSo, Exists
  <2> QED
    BY <2>4, <2>6, <2>7, <2>8, <2>9, <2>10, <2>11, <2>12
<1>6. ASSUME Record PROVE KeepInv'
  <2>4. TypeOK'
    <3>1. row # NoRow
      BY <1>6 DEF Record, Answered, RowStays, ForRow
    <3>2. row' \in Row \cup {NoRow}
      BY <1>6, <3>1 DEF Record, After, Row
    <3>3. HelperTypeOK'
      BY <1>6 DEF Record, HelperTypeOK, Fault, NoFault
    <3> QED
      BY <1>6, <3>2, <3>3 DEF Record, TypeOK, budget
  <2>6. StepOfRequest'
    BY <1>6 DEF Record, Answered, After, Fault, NoFault, helperVars, StepOfRequest,
      InstallSteps, UpgradeSteps, SwapSteps
  <2>7. Linked'
    BY <1>6 DEF Record, Answered, After, Fault, NoFault, helperVars, Linked, Called, Asked
  <2>8. RowStays'
    BY <1>6 DEF Record, Answered, After, Fault, NoFault, helperVars, RowStays, ForRow, Linked,
      Called
  <2>11. Named'
    BY <1>6 DEF Record, Answered, After, Fault, NoFault, helperVars, Named
  <2>9. FirstIsOwn'
    <3>1. row # NoRow /\ box' = box /\ Done(task) /\ helper' = helper /\ helper = "idle" /\ removing' = removing
      BY <1>6 DEF Record, Answered, RowStays, ForRow, DoneIsSo, Linked
    <3>2. CASE row' = row
      BY <3>1, <3>2 DEF FirstIsOwn
    <3>3. CASE row' = After(task.op)
      <4>1. CASE task.op = "remove"
        BY <3>1, <3>3, <4>1 DEF FirstIsOwn, After, Done, NoRow, Names
      <4>2. CASE task.op # "remove"
        BY <3>1, <3>3, <4>2 DEF FirstIsOwn, After, Row
      <4> QED
        BY <4>1, <4>2
    <3> QED
      BY <1>6, <3>2, <3>3 DEF Record
  <2>12. KeptHere'
    <3>1. row # NoRow /\ box' = box /\ Done(task) /\ helper' = helper /\ helper = "idle" /\ removing' = removing
      BY <1>6 DEF Record, Answered, RowStays, ForRow, DoneIsSo, Linked
    <3>2. CASE row' = row
      BY <3>1, <3>2 DEF KeptHere, Kept
    <3>3. CASE row' = After(task.op) /\ task.op = "remove"
      BY <3>1, <3>3 DEF KeptHere, After, NoRow
    <3>4. CASE row' = After(task.op) /\ task.op # "remove"
      <4>1. row'.image = row.image
        BY <3>1, <3>4 DEF After, Row
      <4>2. CASE row.status = "registered"
        <5>1. task.op \in {"install", "start", "stop", "restart"}
          BY <1>6, <3>4, <4>2 DEF Record, Answered, RowStays, ForRow, Linked, Called, Requests,
            Operations
        <5>2. Kept("main")
          BY <3>1, <4>2, <5>1 DEF FirstIsOwn, Done, Kept, Names
        <5> QED
          BY <3>1, <4>1, <5>2 DEF KeptHere, Kept
      <4>3. CASE row.status # "registered"
        BY <3>1, <4>1, <4>3 DEF KeptHere, Kept, Row
      <4> QED
        BY <4>2, <4>3
    <3> QED
      BY <1>6, <3>2, <3>3, <3>4 DEF Record
  <2>10. DoneIsSo' /\ UpgradeIsSo'
    BY <1>6 DEF Record, Answered, After, Fault, NoFault, helperVars, DoneIsSo, Done, Pair,
      UpgradeIsSo, Exists
  <2> QED
    BY <2>4, <2>6, <2>7, <2>8, <2>9, <2>10, <2>11, <2>12
<1>7. ASSUME PersistUpgrade PROVE KeepInv'
  <2>4. TypeOK'
    <3>1. row \in Row /\ task.image \in Images
      BY <1>7 DEF PersistUpgrade, Answered, RowStays, ForRow, Named
    <3>2. row' \in Row
      BY <1>7, <3>1 DEF PersistUpgrade, Row
    <3>3. HelperTypeOK'
      BY <1>7 DEF PersistUpgrade, HelperTypeOK, helperVars
    <3> QED
      BY <1>7, <3>2, <3>3 DEF PersistUpgrade, TypeOK
  <2>6. StepOfRequest'
    BY <1>7 DEF PersistUpgrade, Answered, helperVars, StepOfRequest, InstallSteps,
      UpgradeSteps, SwapSteps
  <2>7. Linked'
    BY <1>7 DEF PersistUpgrade, Answered, helperVars, Linked, Called, Asked
  <2>8. RowStays'
    BY <1>7 DEF PersistUpgrade, Answered, helperVars, RowStays, ForRow, Linked, Called
  <2>11. Named'
    BY <1>7 DEF PersistUpgrade, Answered, helperVars, Named
  <2>9. FirstIsOwn'
    <3>1. row \in Row /\ row.status = "enabled"
      BY <1>7 DEF PersistUpgrade, Answered, RowStays, ForRow
    <3>2. row'.status = "enabled"
      BY <1>7, <3>1 DEF PersistUpgrade, Row
    <3> QED
      BY <3>2 DEF FirstIsOwn
  <2>12. KeptHere'
    <3>1. row \in Row /\ helper = "idle" /\ helper' = "idle" /\ box' = box /\ removing' = removing /\ Pair(task)
      BY <1>7 DEF PersistUpgrade, Answered, RowStays, ForRow, Linked, helperVars, DoneIsSo, Done
    <3>2. CASE row' = row
      BY <3>1, <3>2 DEF KeptHere, Kept
    <3>3. CASE row' = [row EXCEPT !.image = task.image]
      <4>1. row'.image = task.image
        BY <3>1, <3>3 DEF Row
      <4> QED
        BY <3>1, <4>1 DEF KeptHere, Kept, Pair
    <3> QED
      BY <1>7, <3>2, <3>3 DEF PersistUpgrade
  <2>10. DoneIsSo' /\ UpgradeIsSo'
    BY <1>7 DEF PersistUpgrade, Answered, helperVars, DoneIsSo, Done, Pair, UpgradeIsSo, Exists
  <2> QED
    BY <2>4, <2>6, <2>7, <2>8, <2>9, <2>10, <2>11, <2>12
<1>8. ASSUME Commit PROVE KeepInv'
  <2> DEFINE r == [task EXCEPT !.op = "commit"]
  <2>1. r \in Requests /\ r.op \in Operations
    BY <1>8 DEF Commit, Requests, Operations, Row, NoRow
  <2>2. Ask(r) /\ UNCHANGED budget
    BY <1>8 DEF Commit
  <2>3. /\ HelperTypeOK' /\ box' = box
        /\ \/ /\ helper = "idle" /\ helper' # "idle" /\ request' = r
              /\ helper' = FirstStep(r.op)
              /\ linked' = TRUE /\ answer' = "none"
           \/ /\ helper # "idle" /\ answer' = "error"
              /\ UNCHANGED <<helper, request, linked>>
    BY <2>1, <2>2, AskDoes
  <2>4. TypeOK'
    BY <1>8, <2>1, <2>3 DEF Commit, TypeOK, budget, Row, NoRow
  <2>5. FirstStep(r.op) \in FirstSteps
    BY <2>1, FirstStepFits
  <2>6. StepOfRequest'
    BY <2>1, <2>3, <2>5, FirstStepFits DEF StepOfRequest, FirstSteps, InstallSteps,
      UpgradeSteps, SwapSteps
  <2>7. Linked'
    BY <1>8, <2>3, <2>5 DEF Commit, Linked, Called, Asked, FirstSteps
  <2>8. RowStays'
    <3>1. r.op = "commit" /\ r.image = task.image /\ r.old = task.old
      BY DEF Requests
    <3>2. row' = row /\ row = [image |-> task.image, status |-> "enabled"] /\ row # NoRow
      BY <1>8 DEF Commit, RowStays, NoRow
    <3>3. core' \notin {"committing", "compensating"} /\ (core' = "calling" => task' = r)
      BY <1>8 DEF Commit
    <3> HIDE DEF r
    <3>4. helper # "idle" => ForRow(request)'
      BY <1>8, <2>3, <3>2 DEF Commit, RowStays, ForRow
    <3> QED
      BY <2>3, <3>1, <3>2, <3>3, <3>4 DEF RowStays, ForRow
  <2>11. Named'
    BY <1>8, <2>3, <2>5 DEF Commit, Named, NoRow
  <2>9. FirstIsOwn'
    BY <1>8, <2>3, <2>5 DEF Commit, FirstIsOwn, FirstSteps, NoRow
  <2>12. KeptHere'
    BY <1>8, <2>3, <2>5 DEF Commit, FirstIsOwn, KeptHere, Kept, FirstSteps, NoRow
  <2>10. DoneIsSo' /\ UpgradeIsSo'
    BY <1>8, <2>3, <2>5 DEF Commit, DoneIsSo, Done, Pair, UpgradeIsSo, FirstSteps, Exists
  <2> HIDE DEF r
  <2> QED
    BY <2>4, <2>6, <2>7, <2>8, <2>9, <2>10, <2>11, <2>12
<1>9. ASSUME Rollback PROVE KeepInv'
  <2> DEFINE r == [task EXCEPT !.op = "rollback"]
  <2>1. r \in Requests /\ r.op \in Operations
    BY <1>9 DEF Rollback, Requests, Operations, Row, NoRow
  <2>2. Ask(r) /\ UNCHANGED budget
    BY <1>9 DEF Rollback
  <2>3. /\ HelperTypeOK' /\ box' = box
        /\ \/ /\ helper = "idle" /\ helper' # "idle" /\ request' = r
              /\ helper' = FirstStep(r.op)
              /\ linked' = TRUE /\ answer' = "none"
           \/ /\ helper # "idle" /\ answer' = "error"
              /\ UNCHANGED <<helper, request, linked>>
    BY <2>1, <2>2, AskDoes
  <2>4. TypeOK'
    BY <1>9, <2>1, <2>3 DEF Rollback, TypeOK, budget, Row, NoRow
  <2>5. FirstStep(r.op) \in FirstSteps
    BY <2>1, FirstStepFits
  <2>6. StepOfRequest'
    BY <2>1, <2>3, <2>5, FirstStepFits DEF StepOfRequest, FirstSteps, InstallSteps,
      UpgradeSteps, SwapSteps
  <2>7. Linked'
    BY <1>9, <2>3, <2>5 DEF Rollback, Linked, Called, Asked, FirstSteps
  <2>8. RowStays'
    <3>1. r.op = "rollback" /\ r.image = task.image /\ r.old = task.old
      BY DEF Requests
    <3>2. row' = row /\ row = [image |-> task.old, status |-> "enabled"] /\ row # NoRow
      BY <1>9 DEF Rollback, RowStays, NoRow
    <3>3. core' \notin {"committing", "compensating"} /\ (core' = "calling" => task' = r)
      BY <1>9 DEF Rollback
    <3> HIDE DEF r
    <3>4. helper # "idle" => ForRow(request)'
      BY <1>9, <2>3, <3>2 DEF Rollback, RowStays, ForRow
    <3> QED
      BY <2>3, <3>1, <3>2, <3>3, <3>4 DEF RowStays, ForRow
  <2>11. Named'
    BY <1>9, <2>3, <2>5 DEF Rollback, Named, NoRow
  <2>9. FirstIsOwn'
    BY <1>9, <2>3, <2>5 DEF Rollback, FirstIsOwn, FirstSteps, NoRow
  <2>12. KeptHere'
    BY <1>9, <2>3, <2>5 DEF Rollback, FirstIsOwn, KeptHere, Kept, FirstSteps, NoRow
  <2>10. DoneIsSo' /\ UpgradeIsSo'
    BY <1>9, <2>3, <2>5 DEF Rollback, DoneIsSo, Done, Pair, UpgradeIsSo, FirstSteps, Exists
  <2> HIDE DEF r
  <2> QED
    BY <2>4, <2>6, <2>7, <2>8, <2>9, <2>10, <2>11, <2>12
<1>10. ASSUME Finish PROVE KeepInv'
  <2>4. TypeOK'
    BY <1>10 DEF Finish, TypeOK, HelperTypeOK, helperVars, budget, Row, NoRow
  <2>6. StepOfRequest'
    BY <1>10 DEF Finish, helperVars, StepOfRequest, InstallSteps, UpgradeSteps, SwapSteps
  <2>7. Linked'
    BY <1>10 DEF Finish, helperVars, Linked, Called, Asked
  <2>8. RowStays'
    BY <1>10 DEF Finish, helperVars, RowStays, ForRow, Linked, Called
  <2>11. Named'
    BY <1>10 DEF Finish, helperVars, Named
  <2>9. FirstIsOwn'
    BY <1>10 DEF Finish, helperVars, FirstIsOwn, NoRow
  <2>12. KeptHere'
    BY <1>10 DEF Finish, helperVars, FirstIsOwn, KeptHere, Kept, NoRow
  <2>10. DoneIsSo' /\ UpgradeIsSo'
    BY <1>10 DEF Finish, helperVars, DoneIsSo, Done, Pair, UpgradeIsSo, Exists
  <2> QED
    BY <2>4, <2>6, <2>7, <2>8, <2>9, <2>10, <2>11, <2>12
<1>11. ASSUME HangUp PROVE KeepInv'
  <2>4. TypeOK'
    <3>1. HelperTypeOK'
      BY <1>11 DEF HangUp, Abandon, HelperTypeOK, Steps
    <3> QED
      BY <1>11, <3>1 DEF HangUp, Abandon, TypeOK
  <2>6. StepOfRequest'
    BY <1>11 DEF HangUp, Abandon, helperVars, StepOfRequest, InstallSteps, UpgradeSteps,
      SwapSteps
  <2>7. Linked'
    BY <1>11 DEF HangUp, Abandon, helperVars, Linked, Called, Asked
  <2>8. RowStays'
    BY <1>11 DEF HangUp, Abandon, helperVars, RowStays, ForRow, Linked, Called
  <2>11. Named'
    BY <1>11 DEF HangUp, Abandon, helperVars, Named
  <2>9. FirstIsOwn'
    BY <1>11 DEF HangUp, Abandon, helperVars, FirstIsOwn, NoRow
  <2>12. KeptHere'
    BY <1>11 DEF HangUp, Abandon, helperVars, FirstIsOwn, KeptHere, Kept, NoRow
  <2>10. DoneIsSo' /\ UpgradeIsSo'
    BY <1>11 DEF HangUp, Abandon, helperVars, DoneIsSo, Done, Pair, UpgradeIsSo, Exists
  <2> QED
    BY <2>4, <2>6, <2>7, <2>8, <2>9, <2>10, <2>11, <2>12
<1>12. ASSUME CoreDies PROVE KeepInv'
  <2>4. TypeOK'
    <3>1. HelperTypeOK'
      BY <1>12 DEF CoreDies, Abandon, HelperTypeOK, Steps
    <3> QED
      BY <1>12, <3>1 DEF CoreDies, Abandon, TypeOK
  <2>6. StepOfRequest'
    BY <1>12 DEF CoreDies, Abandon, helperVars, StepOfRequest, InstallSteps, UpgradeSteps,
      SwapSteps
  <2>7. Linked'
    BY <1>12 DEF CoreDies, Abandon, helperVars, Linked, Called, Asked
  <2>8. RowStays'
    BY <1>12 DEF CoreDies, Abandon, helperVars, RowStays, ForRow, Linked, Called
  <2>11. Named'
    BY <1>12 DEF CoreDies, Abandon, helperVars, Named
  <2>9. FirstIsOwn'
    BY <1>12 DEF CoreDies, Abandon, helperVars, FirstIsOwn, NoRow
  <2>12. KeptHere'
    BY <1>12 DEF CoreDies, Abandon, helperVars, FirstIsOwn, KeptHere, Kept, NoRow
  <2>10. DoneIsSo' /\ UpgradeIsSo'
    BY <1>12 DEF CoreDies, Abandon, helperVars, DoneIsSo, Done, Pair, UpgradeIsSo, Exists
  <2> QED
    BY <2>4, <2>6, <2>7, <2>8, <2>9, <2>10, <2>11, <2>12
<1>13. ASSUME HelperCrash PROVE KeepInv'
  <2>4. TypeOK'
    <3>1. HelperTypeOK'
      BY <1>13 DEF HelperCrash, HelperDies, HelperTypeOK, Steps
    <3> QED
      BY <1>13, <3>1 DEF HelperCrash, HelperDies, TypeOK
  <2>6. StepOfRequest'
    BY <1>13 DEF HelperCrash, HelperDies, helperVars, StepOfRequest, InstallSteps,
      UpgradeSteps, SwapSteps
  <2>7. Linked'
    BY <1>13 DEF HelperCrash, HelperDies, helperVars, Linked, Called, Asked
  <2>8. RowStays'
    BY <1>13 DEF HelperCrash, HelperDies, helperVars, RowStays, ForRow, Linked, Called
  <2>11. Named'
    BY <1>13 DEF HelperCrash, HelperDies, helperVars, Named
  <2>9. FirstIsOwn'
    BY <1>13 DEF HelperCrash, HelperDies, helperVars, FirstIsOwn, NoRow
  <2>12. KeptHere'
    BY <1>13 DEF HelperCrash, HelperDies, helperVars, FirstIsOwn, KeptHere, Kept, NoRow
  <2>10. DoneIsSo' /\ UpgradeIsSo'
    BY <1>13 DEF HelperCrash, HelperDies, helperVars, DoneIsSo, Done, Pair, UpgradeIsSo, Exists
  <2> QED
    BY <2>4, <2>6, <2>7, <2>8, <2>9, <2>10, <2>11, <2>12
<1> QED
  BY <1>1, <1>2, <1>3, <1>4, <1>5, <1>6, <1>7, <1>8, <1>9, <1>10, <1>11, <1>12, <1>13 DEF Next,
    CoreStep

(* KeepInv is inductive.                                                   *)
LEMMA StepKeeps ==
  ASSUME KeepInv, [Next]_vars
  PROVE  KeepInv'
<1>1. ASSUME CommandStep, HelperStep PROVE KeepInv'
  <2>a. UNCHANGED Common /\ HelperTypeOK /\ request.op \in Operations /\ StepOfRequest
    BY <1>1 DEF HelperStep, Common, KeepInv, TypeOK, HelperTypeOK, Requests
  <2>1. Moves /\ StepOfRequest' /\ HelperTypeOK'
    BY <1>1, <2>a, HelperMoves, TypeHelper
  <2>2. TypeOK'
    BY <2>a, <2>1 DEF KeepInv, TypeOK, Common, budget
  <2>3. Linked' /\ RowStays' /\ Named'
    BY <2>a, <2>1 DEF KeepInv, Common, Moves, Linked, Called, Asked, RowStays, ForRow, Named
  <2> QED
    BY <1>1, <2>a, <2>1, <2>2, <2>3, HelperKeeps DEF KeepInv
<1>2. ASSUME Reply, HelperStep PROVE KeepInv'
  <2>a. UNCHANGED Common
    BY <1>2 DEF HelperStep, Common
  <2> USE <1>2, <2>a DEF KeepInv, Common, Reply
  <2>1. TypeOK'
    BY DEF TypeOK, HelperTypeOK, Steps, budget
  <2>2. Linked' /\ StepOfRequest' /\ Named'
    BY DEF Linked, Called, Asked, StepOfRequest, InstallSteps, UpgradeSteps, SwapSteps, Named
  <2>3. RowStays'
    BY DEF RowStays, ForRow, Linked, Called, Asked
  <2>4. DoneIsSo' /\ UpgradeIsSo'
    BY DEF DoneIsSo, Done, Pair, Exists, Linked, Called, Asked, UpgradeIsSo
  <2>5. FirstIsOwn' /\ KeptHere'
    BY DEF FirstIsOwn, KeptHere, Kept
  <2> QED
    BY <2>1, <2>2, <2>3, <2>4, <2>5
<1>3. ASSUME NoticeHangUp, HelperStep PROVE KeepInv'
  <2>a. UNCHANGED Common
    BY <1>3 DEF HelperStep, Common
  <2> USE <1>3, <2>a DEF KeepInv, Common, NoticeHangUp
  <2>1. TypeOK'
    BY DEF TypeOK, HelperTypeOK, Steps, budget
  <2>2. Linked' /\ StepOfRequest' /\ Named' /\ RowStays'
    BY DEF Linked, Called, Asked, StepOfRequest, Named, RowStays, ForRow
  <2>3. DoneIsSo' /\ UpgradeIsSo' /\ FirstIsOwn' /\ KeptHere'
    BY DEF DoneIsSo, Done, Pair, Exists, UpgradeIsSo, FirstIsOwn, KeptHere, Kept
  <2> QED
    BY <2>1, <2>2, <2>3
<1>4. CASE HelperStep
  BY <1>1, <1>2, <1>3, <1>4 DEF HelperStep, Working, CommandStep
<1>5. CASE Next /\ ~HelperStep
  BY <1>5, CoreKeeps
<1>6. CASE UNCHANGED vars
  BY <1>6 DEF vars, helperVars, budget, KeepInv, TypeOK, HelperTypeOK, Linked, Called, Asked,
    StepOfRequest, Named, RowStays, ForRow, DoneIsSo, Done, Pair, Exists, UpgradeIsSo,
    FirstIsOwn, KeptHere, Kept
<1> QED
  BY <1>4, <1>5, <1>6

(* It holds of a module that was never installed.                          *)
LEMMA InitKeeps ==
  ASSUME Init
  PROVE  KeepInv
<1> USE HelperAssumption, RegistryAssumption DEF Init, HelperInit, KeepInv
<1>1. TypeOK
  <2>1. NoRequest \in Requests
    BY DEF NoRequest, Requests, Operations
  <2>2. box \in [Names -> Container \cup {Absent}]
    OBVIOUS
  <2>3. helper \in Steps /\ faults \in 0..MaxFaults
    BY DEF Steps
  <2>5. linked \in BOOLEAN /\ cancelled \in BOOLEAN /\ answer \in {"none", "ok", "error"} /\ request \in Requests
    BY <2>1
  <2>4. 0 \in 0..MaxRejects /\ 0 \in 0..MaxHangUps /\ 0 \in 0..MaxCrashes /\ 0 \in 0..MaxDeaths
    OBVIOUS
  <2> QED
    BY <2>1, <2>2, <2>3, <2>4, <2>5 DEF TypeOK, HelperTypeOK
<1>2. Linked /\ StepOfRequest /\ Named /\ RowStays
  BY DEF Linked, Called, Asked, StepOfRequest, InstallSteps, UpgradeSteps, SwapSteps, Named,
    RowStays, NoRequest
<1>3. DoneIsSo /\ UpgradeIsSo /\ FirstIsOwn /\ KeptHere
  BY DEF DoneIsSo, UpgradeIsSo, FirstIsOwn, KeptHere, NoRow, Absent, Names
<1> QED
  BY <1>1, <1>2, <1>3

(* Types and the strengthened invariant hold in every reachable state of   *)
(* the registry and its helper.                                            *)
THEOREM KeepCorrect == Spec => []KeepInv
BY InitKeeps, StepKeeps, PTL DEF Spec

(* RecordedImageSurvives: whichever commands fail, callers leave and       *)
(* processes die, an installed module keeps a container of the image in    *)
(* its row (upgradeDockerModule renames, it does not remove).              *)
THEOREM ImageIsKept == Spec => []RecordedImageSurvives
<1>1. KeepInv => RecordedImageSurvives
  BY DEF KeepInv, KeptHere, Kept, RecordedImageSurvives, Names
<1> QED
  BY <1>1, KeepCorrect, PTL

(* What a step does to running containers.                                 *)
SameUp == \A n \in Names : Running(n)' <=> Running(n)
Down(n) == ~Running(n)' /\ \A m \in Names \ {n} : Running(m)' <=> Running(m)
Others(n) == \A m \in Names \ {n} : Running(m)' <=> Running(m)
UpMoved(m, n) ==
  /\ ~Running(m)' /\ (Running(n)' <=> Running(m))
  /\ \A k \in Names \ {m, n} : Running(k)' <=> Running(k)

(* What each Docker command does to the running containers.                *)
LEMMA RunningAfter ==
  ASSUME box \in Boxes, NEW n \in Names
  PROVE  /\ box' = Started(n) => Others(n)
         /\ box' = Stopped(n) => Down(n)
         /\ box' = Removed(n) => Down(n)
         /\ box' = [box EXCEPT ![n] = Created(request.image)] => Down(n)
         /\ \A m \in Names : m # n /\ box' = Renamed(m, n) => UpMoved(m, n)
<1> USE DEF Boxes, Exists, Running
<1>0. \A m \in Names : box[m] \in Container \cup {Absent}
  OBVIOUS
<1>1. box' = Started(n) => Others(n)
  BY DEF Others, Started
<1>2. box' = Stopped(n) => Down(n)
  <2>1. [box[n] EXCEPT !.up = FALSE].up = FALSE
    BY <1>0 DEF Container, Absent
  <2> QED
    BY <2>1 DEF Down, Stopped
<1>3. box' = Removed(n) => Down(n)
  BY DEF Down, Removed, Absent
<1>4. box' = [box EXCEPT ![n] = Created(request.image)] => Down(n)
  BY DEF Down, Created
<1>5. \A m \in Names : m # n /\ box' = Renamed(m, n) => UpMoved(m, n)
  BY DEF UpMoved, Renamed, Absent
<1> QED
  BY <1>1, <1>2, <1>3, <1>4, <1>5

(* The steps at which the candidate may run.                               *)
Trial == {"watching", "retiring", "promoting", "clearing", "undoing"}

(* A command meets at most one fault.                                      *)
LEMMA FaultOrNot ==
  ASSUME CommandStep
  PROVE  NoFault \/ Fault
BY DEF CommandStep, Installing, Upgrading, Settling, Check, Command, Inspect, CreateMain,
  StartMain, VerifyMain, Discard, Resume, Control, Remove, CheckSource, StageCandidate,
  VerifyMount, Unstage, StopOld, StartCandidate, AwaitHealthy, RetireOld, Promote, Confirm,
  Clear, Undo, Restore, Revive, VerifyPair, Forget, Halt, Drop, Rename, Relaunch, Recheck

(* A command that Docker obeys keeps one container running.                *)
LEMMA HelperExclusive ==
  ASSUME HelperTypeOK, OneRuns, CommandStep, deaths' = deaths
  PROVE  OneRuns'
<1>a. box' = box => SameUp
  BY DEF SameUp, Running, Exists
<1>b. \A n \in Names : box' = Started(n) => Others(n)
  BY RunningAfter DEF HelperTypeOK, Boxes
<1>c. \A n \in Names : box' = Stopped(n) => Down(n)
  BY RunningAfter DEF HelperTypeOK, Boxes
<1>d. \A n \in Names : box' = Removed(n) => Down(n)
  BY RunningAfter DEF HelperTypeOK, Boxes
<1>e. box' = [box EXCEPT !["main"] = Created(request.image)] => Down("main")
  BY RunningAfter DEF HelperTypeOK, Boxes, Names
<1>f. box' = [box EXCEPT !["candidate"] = Created(request.image)] => Down("candidate")
  BY RunningAfter DEF HelperTypeOK, Boxes, Names
<1>g. \A m, n \in Names : m # n /\ box' = Renamed(m, n) => UpMoved(m, n)
  BY RunningAfter DEF HelperTypeOK, Boxes
<1> SUFFICES ASSUME faults' = 0, deaths = 0
             PROVE  OneRuns'
  BY DEF OneRuns
<1>h. /\ faults = 0 /\ NoFault /\ ~Fault
      /\ ~Running("previous") /\ (Running("candidate") => helper \in Trial)
      /\ helper \in Trial \cup {"trying"} => ~Running("main")
  <2>1. faults \in Nat /\ (NoFault \/ Fault)
    BY FaultOrNot DEF HelperTypeOK
  <2> QED
    BY <2>1 DEF OneRuns, Trial, NoFault, Fault
<1> USE <1>a, <1>b, <1>c, <1>d, <1>e, <1>f, <1>g, <1>h
    DEF Check, Command, Names, Trial, OneRuns, SameUp, Others, Down, UpMoved
<1>1. CASE Inspect
  BY <1>1 DEF Inspect
<1>2. CASE CreateMain
  BY <1>2 DEF CreateMain
<1>3. CASE StartMain
  BY <1>3 DEF StartMain
<1>4. CASE VerifyMain
  BY <1>4 DEF VerifyMain
<1>5. CASE Discard
  BY <1>5 DEF Discard, Detached
<1>6. CASE Resume
  BY <1>6 DEF Resume
<1>7. CASE Control
  BY <1>7 DEF Control
<1>8. CASE Remove
  BY <1>8 DEF Remove
<1>9. CASE CheckSource
  BY <1>9 DEF CheckSource
<1>10. CASE StageCandidate
  BY <1>10 DEF StageCandidate
<1>11. CASE VerifyMount
  BY <1>11 DEF VerifyMount
<1>12. CASE Unstage
  BY <1>12 DEF Unstage, Detached
<1>13. CASE StopOld
  BY <1>13 DEF StopOld, Detached
<1>14. CASE StartCandidate
  BY <1>14 DEF StartCandidate, Detached
<1>15. CASE AwaitHealthy
  BY <1>15 DEF AwaitHealthy, Detached
<1>16. CASE RetireOld
  BY <1>16 DEF RetireOld, Detached, CanRename
<1>17. CASE Promote
  BY <1>17 DEF Promote, Detached, CanRename
<1>18. CASE Confirm
  BY <1>18 DEF Confirm, Detached
<1>19. CASE Clear
  BY <1>19 DEF Clear, Detached
<1>20. CASE Undo
  BY <1>20 DEF Undo, Detached
<1>21. CASE Restore
  BY <1>21 DEF Restore, Detached, CanRename
<1>22. CASE Revive
  BY <1>22 DEF Revive, Detached
<1>23. CASE VerifyPair
  BY <1>23 DEF VerifyPair
<1>24. CASE Forget
  BY <1>24 DEF Forget
<1>25. CASE Halt
  BY <1>25 DEF Halt, Leaving
<1>26. CASE Drop
  BY <1>26 DEF Drop, Leaving
<1>27. CASE Rename
  BY <1>27 DEF Rename, Leaving, CanRename
<1>28. CASE Relaunch
  BY <1>28 DEF Relaunch, Leaving
<1>29. CASE Recheck
  BY <1>29 DEF Recheck, Leaving, Outcome
<1> QED
  BY <1>1, <1>2, <1>3, <1>4, <1>5, <1>6, <1>7, <1>8, <1>9, <1>10, <1>11, <1>12, <1>13, <1>14,
    <1>15, <1>16, <1>17, <1>18, <1>19, <1>20, <1>21, <1>22, <1>23, <1>24, <1>25, <1>26, <1>27,
    <1>28, <1>29 DEF CommandStep, Installing, Upgrading, Settling

(* OneRuns is preserved by every step.                                     *)
LEMMA StepExclusive ==
  ASSUME KeepInv, OneRuns, [Next]_vars
  PROVE  OneRuns'
<1>a. HelperTypeOK /\ deaths \in Nat
  BY RegistryAssumption DEF KeepInv, TypeOK
<1>1. CASE CommandStep /\ HelperStep
  BY <1>1, <1>a, HelperExclusive DEF HelperStep, budget
<1>2. ASSUME UNCHANGED <<box, faults, deaths>>,
             UNCHANGED helper \/ (helper \in {"idle", "ok", "error"} /\ helper' \notin Trial \cup {"trying"})
      PROVE  OneRuns'
  BY <1>2 DEF OneRuns, Running, Exists, Trial
<1>3. CASE Next /\ ~HelperStep
  <2>1. CASE HelperCrash
    BY <2>1, <1>a DEF HelperCrash, OneRuns
  <2>2. CASE Record
    <3>1. faults' # 0 \/ NoFault
      BY <2>2, <1>a DEF Record, HelperTypeOK, Fault, NoFault
    <3>2. UNCHANGED <<box, helper, deaths>>
      BY <2>2 DEF Record, budget
    <3> QED
      BY <3>1, <3>2, <1>2 DEF NoFault, OneRuns
  <2>3. ASSUME NEW r, Ask(r), UNCHANGED budget PROVE OneRuns'
    <3>1. UNCHANGED <<box, faults, deaths>> /\ (UNCHANGED helper \/ (helper = "idle" /\ helper' \notin Trial \cup {"trying"}))
      BY <2>3 DEF Ask, budget, FirstStep, Trial
    <3> QED
      BY <3>1, <1>2
  <2>4. CASE \E i \in Images : InstallManifest(i) \/ UpgradeManifest(i)
    BY <2>3, <2>4 DEF InstallManifest, UpgradeManifest, Call
  <2>5. CASE RemoveModule \/ \E op \in {"start", "stop", "restart"} : ControlModule(op)
    BY <2>3, <2>5 DEF RemoveModule, ControlModule, Call
  <2>6. CASE Commit \/ Rollback
    BY <2>3, <2>6 DEF Commit, Rollback
  <2>7. CASE Refused \/ PersistUpgrade \/ Finish \/ HangUp \/ CoreDies
    BY <2>7, <1>2 DEF Refused, PersistUpgrade, Finish, HangUp, CoreDies, Abandon, helperVars,
      budget
  <2> QED
    BY <1>3, <2>1, <2>2, <2>4, <2>5, <2>6, <2>7 DEF Next, CoreStep
<1>4. CASE (Reply \/ NoticeHangUp) /\ HelperStep
  BY <1>4, <1>2 DEF HelperStep, Reply, NoticeHangUp, budget, Trial
<1>5. CASE UNCHANGED vars
  BY <1>5, <1>2 DEF vars, helperVars, budget
<1> QED
  BY <1>1, <1>3, <1>4, <1>5 DEF HelperStep, Working, CommandStep

(* OneOwnerOfData: while Docker obeys and the helper lives, never two      *)
(* containers of the module run on its data, however many jobs are         *)
(* cancelled and whenever Core dies.                                       *)
THEOREM DataIsExclusive == Spec => []OneOwnerOfData
<1>1. Init => OneRuns
  BY DEF Init, HelperInit, OneRuns, Running, Exists, Names
<1>2. KeepInv /\ KeepInv' /\ OneRuns /\ [Next]_vars => OneRuns'
  BY StepExclusive
<1>3. OneRuns => OneOwnerOfData
  BY DEF OneRuns, OneOwnerOfData, DataExclusive, Names
<1> QED
  BY <1>1, <1>2, <1>3, KeepCorrect, PTL DEF Spec

(* The three containers.                                                   *)
Live(i) == [image |-> i, up |-> TRUE]
Three(m, c, p) == box["main"] = m /\ box["candidate"] = c /\ box["previous"] = p
Alone(m) == Three(m, Absent, Absent)
Swapped(r) == Three(Live(r.image), Absent, Created(r.old))

(* Docker as the row has it.                                               *)
Settled ==
  \/ row = NoRow /\ Alone(Absent)
  \/ row.status = "enabled" /\ Alone(Live(row.image))
  \/ row.status = "disabled" /\ Alone(Created(row.image))

(* What a request leaves when nothing disturbs it.                         *)
Result(r) ==
  /\ r.op = "install" => Alone(Live(r.image))
  /\ r.op \in {"start", "restart"} => Alone(Live(row.image))
  /\ r.op = "stop" => Alone(Created(row.image))
  /\ r.op = "remove" => Alone(Absent)
  /\ r.op = "upgrade" => Swapped(r)
  /\ r.op = "commit" => Alone(Live(r.image))
  /\ r.op = "rollback" => Alone(Live(r.old))

(* The containers at every step of an undisturbed operation.               *)
HelperExact ==
  LET old == request.old
      new == request.image IN
  /\ helper \in {"checking", "controlling", "removing"} => Settled
  /\ helper \in {"inspecting", "creating"} => Alone(Absent)
  /\ helper = "starting" => Alone(Created(new))
  /\ helper = "verifying" => Alone(Live(new))
  /\ helper = "staging" => Alone(Live(old))
  /\ helper \in {"mounting", "stopping"} => Three(Live(old), Created(new), Absent)
  /\ helper = "trying" => Three(Created(old), Created(new), Absent)
  /\ helper \in {"watching", "retiring", "clearing"} => Three(Created(old), Live(new), Absent)
  /\ helper = "promoting" => Three(Absent, Live(new), Created(old))
  /\ helper \in {"confirming", "pairing", "forgetting", "halting"} => Swapped(request)
  /\ helper = "dropping" => Three(Created(new), Absent, Created(old))
  /\ helper = "renaming" => Three(Absent, Absent, Created(old))
  /\ helper \in {"reviving", "relaunching"} => Alone(Created(old))
  /\ helper = "rechecking" => Alone(Live(old))
  /\ helper = "error" => request.op \in {"upgrade", "rollback"} /\ Alone(Live(old))
  /\ helper = "ok" => Result(request)
  /\ helper \notin {"discarding", "resuming", "unstaging", "undoing", "restoring"}
  /\ helper = "halting" => request.op = "rollback"
  /\ helper # "idle" => linked /\ ~cancelled

(* The containers when an undisturbed operation has its answer.            *)
CoreExact ==
  /\ core = "idle" => helper = "idle" /\ Settled
  /\ core = "calling" /\ answer = "ok" => Result(task)
  /\ core = "calling" /\ answer = "error" =>
       /\ task.op = "upgrade" /\ Alone(Live(task.old))
       /\ row = [image |-> task.old, status |-> "enabled"]
  /\ core \in {"committing", "compensating"} => Swapped(task)
  /\ core = "cleaning" /\ answer # "none" => Alone(Live(task.image))
  /\ core = "undoing" /\ answer # "none" => Alone(Live(task.old))
  /\ core = "cleaning" => row = [image |-> task.image, status |-> "enabled"]
  /\ core = "undoing" => row = [image |-> task.old, status |-> "enabled"]

(* Step by step, while nothing fails, dies or hangs up.                    *)
Exact == Undisturbed => HelperExact /\ CoreExact

(* Starting and stopping a container whose state is known.                 *)
LEMMA UpOrDown ==
  ASSUME box \in Boxes, NEW n \in Names, NEW i, box[n] \in {Live(i), Created(i)}
  PROVE  /\ Started(n)[n] = Live(i) /\ Stopped(n)[n] = Created(i)
         /\ \A m \in Names \ {n} : Started(n)[m] = box[m] /\ Stopped(n)[m] = box[m]
<1> DEFINE Any == [image : Images \cup {0}, up : BOOLEAN]
<1>1. box[n] \in Any /\ box[n].image = i
  <2>1. box[n] \in Container \cup {Absent}
    BY DEF Boxes
  <2>3. box[n] \in Any
    <3>1. Absent \in Any
      BY DEF Absent
    <3>2. ASSUME box[n] \in Container PROVE box[n] \in Any
      BY <3>2 DEF Container
    <3> QED
      BY <2>1, <3>1, <3>2
  <2>2. box[n].image = i
    BY DEF Live, Created
  <2> QED
    BY <2>2, <2>3
<1>2. ASSUME NEW r \in Any, r.image = i
      PROVE  (r.up = TRUE => r = Live(i)) /\ (r.up = FALSE => r = Created(i))
  BY <1>2 DEF Live, Created
<1>3. [box[n] EXCEPT !.up = TRUE] = Live(i)
  <2> DEFINE r == [box[n] EXCEPT !.up = TRUE]
  <2>1. r \in Any /\ r.image = i /\ r.up = TRUE
    BY <1>1
  <2> HIDE DEF r
  <2>2. r = Live(i)
    BY <2>1, <1>2
  <2> QED
    BY <2>2 DEF r
<1>4. [box[n] EXCEPT !.up = FALSE] = Created(i)
  <2> DEFINE r == [box[n] EXCEPT !.up = FALSE]
  <2>1. r \in Any /\ r.image = i /\ r.up = FALSE
    BY <1>1
  <2> HIDE DEF r
  <2>2. r = Created(i)
    BY <2>1, <1>2
  <2> QED
    BY <2>2 DEF r
<1> HIDE DEF Any
<1> QED
  BY <1>3, <1>4 DEF Boxes, Started, Stopped

(* An undisturbed command leads from the containers of its step to those   *)
(* of the next.                                                            *)
LEMMA HelperIsExact ==
  ASSUME KeepInv, HelperExact, CommandStep, NoFault, ~Fault, row' = row
  PROVE  HelperExact'
<1>a. /\ box \in Boxes /\ HelperTypeOK /\ ~cancelled /\ cancelled' = cancelled /\ linked /\ linked' = linked
      /\ request' = request /\ StepOfRequest /\ ForRow(request) /\ request.op \in Operations
      /\ Moves
  <2>1. HelperTypeOK /\ request.op \in Operations /\ StepOfRequest
    BY DEF KeepInv, TypeOK, HelperTypeOK, Requests
  <2>2. Moves
    BY <2>1, HelperMoves
  <2> QED
    BY <2>1, <2>2 DEF KeepInv, Boxes, HelperExact, Moves, RowStays, HelperTypeOK
<1>b. \A n \in Names : Exists(n) <=> box[n].image # 0
  BY <1>a, ExistsIsImage
<1>c. request.op = "upgrade" => row = [image |-> request.old, status |-> "enabled"]
  BY <1>a DEF ForRow
<1>d. /\ request.op \in {"install", "upgrade", "commit", "rollback"} => request.image # 0
      /\ request.op \in {"upgrade", "commit", "rollback"} => request.old # 0
  <2>1. CASE request.op = "install"
    BY <2>1, <1>a, HelperAssumption DEF KeepInv, TypeOK, ForRow, Row, NoRow
  <2>2. CASE request.op \in {"upgrade", "commit", "rollback"}
    <3>1. task.op = "upgrade" /\ request.image = task.image /\ request.old = task.old
      BY <2>2, <1>a DEF KeepInv, Linked, Asked, Called, TypeOK, Requests
    <3> QED
      BY <3>1, HelperAssumption DEF KeepInv, Named
  <2> QED
    BY <2>1, <2>2
<1>e. ~Leaving
  BY <1>a DEF Leaving, Detached
<1> HIDE DEF HelperTypeOK
<1>1. CASE Inspect
  <2>1. Alone(Absent)
    BY <1>1, <1>a, <1>c DEF Inspect, Check, Command, HelperExact
  <2>2. request.op \in {"install"}
    BY <1>1, <1>a DEF Inspect, Check, Command, StepOfRequest, InstallSteps, UpgradeSteps,
      SwapSteps, HelperExact
  <2>3. box' = box /\ helper' = "creating"
    BY <1>1, <2>1, <2>2, <1>a, <1>b, <1>d DEF Inspect, Check, Command, Alone, Three, Live,
      Created, Absent, Names, Running
  <2>4. (Alone(Absent))'
    BY <2>1, <2>3, <1>a DEF Alone, Three, Names, Boxes
  <2> QED
    BY <1>1, <2>2, <2>3, <2>4, <1>a DEF HelperExact, Moves
<1>2. CASE CreateMain
  <2>1. Alone(Absent)
    BY <1>2, <1>a, <1>c DEF CreateMain, Check, Command, HelperExact
  <2>2. request.op \in {"install"}
    BY <1>2, <1>a DEF CreateMain, Check, Command, StepOfRequest, InstallSteps, UpgradeSteps,
      SwapSteps, HelperExact
  <2>3. box' = [box EXCEPT !["main"] = Created(request.image)] /\ helper' = "starting"
    BY <1>2, <2>1, <2>2, <1>a, <1>b, <1>d DEF CreateMain, Check, Command, Alone, Three, Live,
      Created, Absent, Names, Running
  <2>4. (Alone(Created(request.image)))'
    BY <2>1, <2>3, <1>a DEF Alone, Three, Names, Boxes
  <2> QED
    BY <1>2, <2>2, <2>3, <2>4, <1>a DEF HelperExact, Moves
<1>3. CASE StartMain
  <2>1. Alone(Created(request.image))
    BY <1>3, <1>a, <1>c DEF StartMain, Check, Command, HelperExact
  <2>2. request.op \in {"install"}
    BY <1>3, <1>a DEF StartMain, Check, Command, StepOfRequest, InstallSteps, UpgradeSteps,
      SwapSteps, HelperExact
  <2>3. box' = Started("main") /\ helper' = "verifying"
    BY <1>3, <2>1, <2>2, <1>a, <1>b, <1>d DEF StartMain, Check, Command, Alone, Three, Live,
      Created, Absent, Names, Running
  <2>4. (Alone(Live(request.image)))'
    BY <2>1, <2>3, <1>a, UpOrDown DEF Alone, Three, Names, Boxes
  <2> QED
    BY <1>3, <2>2, <2>3, <2>4, <1>a DEF HelperExact, Moves
<1>4. CASE VerifyMain
  <2>1. Alone(Live(request.image))
    BY <1>4, <1>a, <1>c DEF VerifyMain, Check, Command, HelperExact
  <2>2. request.op \in {"install"}
    BY <1>4, <1>a DEF VerifyMain, Check, Command, StepOfRequest, InstallSteps, UpgradeSteps,
      SwapSteps, HelperExact
  <2>3. box' = box /\ helper' = "ok"
    BY <1>4, <2>1, <2>2, <1>a, <1>b, <1>d DEF VerifyMain, Check, Command, Alone, Three, Live,
      Created, Absent, Names, Running
  <2>4. (Alone(Live(request.image)))'
    BY <2>1, <2>3, <1>a DEF Alone, Three, Names, Boxes
  <2> QED
    BY <1>4, <2>2, <2>3, <2>4, <1>a DEF HelperExact, Moves, Result, Swapped
<1>5. CASE CheckSource
  <2>1. Alone(Live(request.old))
    BY <1>5, <1>a, <1>c DEF CheckSource, Check, Command, HelperExact, Settled, NoRow,
      StepOfRequest, UpgradeSteps
  <2>2. request.op \in {"upgrade"}
    BY <1>5, <1>a DEF CheckSource, Check, Command, StepOfRequest, InstallSteps, UpgradeSteps,
      SwapSteps, HelperExact
  <2>3. box' = box /\ helper' = "staging"
    BY <1>5, <2>1, <2>2, <1>a, <1>b, <1>d DEF CheckSource, Check, Command, Alone, Three, Live,
      Created, Absent, Names, Running
  <2>4. (Alone(Live(request.old)))'
    BY <2>1, <2>3, <1>a DEF Alone, Three, Names, Boxes
  <2> QED
    BY <1>5, <2>2, <2>3, <2>4, <1>a DEF HelperExact, Moves
<1>6. CASE StageCandidate
  <2>1. Alone(Live(request.old))
    BY <1>6, <1>a, <1>c DEF StageCandidate, Check, Command, HelperExact
  <2>2. request.op \in {"upgrade"}
    BY <1>6, <1>a DEF StageCandidate, Check, Command, StepOfRequest, InstallSteps,
      UpgradeSteps, SwapSteps, HelperExact
  <2>3. box' = [box EXCEPT !["candidate"] = Created(request.image)] /\ helper' = "mounting"
    BY <1>6, <2>1, <2>2, <1>a, <1>b, <1>d DEF StageCandidate, Check, Command, Alone, Three,
      Live, Created, Absent, Names, Running
  <2>4. (Three(Live(request.old), Created(request.image), Absent))'
    BY <2>1, <2>3, <1>a DEF Alone, Three, Names, Boxes
  <2> QED
    BY <1>6, <2>2, <2>3, <2>4, <1>a DEF HelperExact, Moves
<1>7. CASE VerifyMount
  <2>1. Three(Live(request.old), Created(request.image), Absent)
    BY <1>7, <1>a, <1>c DEF VerifyMount, Check, Command, HelperExact
  <2>2. request.op \in {"upgrade"}
    BY <1>7, <1>a DEF VerifyMount, Check, Command, StepOfRequest, InstallSteps, UpgradeSteps,
      SwapSteps, HelperExact
  <2>3. box' = box /\ helper' = "stopping"
    BY <1>7, <2>1, <2>2, <1>a, <1>b, <1>d DEF VerifyMount, Check, Command, Three, Live,
      Created, Absent, Names, Running
  <2>4. (Three(Live(request.old), Created(request.image), Absent))'
    BY <2>1, <2>3, <1>a DEF Three, Names, Boxes
  <2> QED
    BY <1>7, <2>2, <2>3, <2>4, <1>a DEF HelperExact, Moves
<1>8. CASE StopOld
  <2>1. Three(Live(request.old), Created(request.image), Absent)
    BY <1>8, <1>a, <1>c DEF StopOld, Check, Command, HelperExact
  <2>2. request.op \in {"upgrade"}
    BY <1>8, <1>a DEF StopOld, Check, Command, StepOfRequest, InstallSteps, UpgradeSteps,
      SwapSteps, HelperExact
  <2>3. box' = Stopped("main") /\ helper' = "trying"
    BY <1>8, <2>1, <2>2, <1>a, <1>b, <1>d DEF StopOld, Check, Command, Three, Live, Created,
      Absent, Names, Running, Detached
  <2>4. (Three(Created(request.old), Created(request.image), Absent))'
    BY <2>1, <2>3, <1>a, UpOrDown DEF Three, Names, Boxes
  <2> QED
    BY <1>8, <2>2, <2>3, <2>4, <1>a DEF HelperExact, Moves
<1>9. CASE StartCandidate
  <2>1. Three(Created(request.old), Created(request.image), Absent)
    BY <1>9, <1>a, <1>c DEF StartCandidate, Check, Command, HelperExact
  <2>2. request.op \in {"upgrade"}
    BY <1>9, <1>a DEF StartCandidate, Check, Command, StepOfRequest, InstallSteps,
      UpgradeSteps, SwapSteps, HelperExact
  <2>3. box' = Started("candidate") /\ helper' = "watching"
    BY <1>9, <2>1, <2>2, <1>a, <1>b, <1>d DEF StartCandidate, Check, Command, Three, Live,
      Created, Absent, Names, Running, Detached
  <2>4. (Three(Created(request.old), Live(request.image), Absent))'
    BY <2>1, <2>3, <1>a, UpOrDown DEF Three, Names, Boxes
  <2> QED
    BY <1>9, <2>2, <2>3, <2>4, <1>a DEF HelperExact, Moves
<1>10. CASE AwaitHealthy
  <2>1. Three(Created(request.old), Live(request.image), Absent)
    BY <1>10, <1>a, <1>c DEF AwaitHealthy, Check, Command, HelperExact
  <2>2. request.op \in {"upgrade"}
    BY <1>10, <1>a DEF AwaitHealthy, Check, Command, StepOfRequest, InstallSteps, UpgradeSteps,
      SwapSteps, HelperExact
  <2>3. box' = box /\ helper' \in {"retiring", "clearing"}
    BY <1>10, <2>1, <2>2, <1>a, <1>b, <1>d DEF AwaitHealthy, Check, Command, Three, Live,
      Created, Absent, Names, Running, Detached
  <2>4. (Three(Created(request.old), Live(request.image), Absent))'
    BY <2>1, <2>3, <1>a DEF Three, Names, Boxes
  <2> QED
    BY <1>10, <2>2, <2>3, <2>4, <1>a DEF HelperExact, Moves
<1>11. CASE RetireOld
  <2>1. Three(Created(request.old), Live(request.image), Absent)
    BY <1>11, <1>a, <1>c DEF RetireOld, Check, Command, HelperExact
  <2>2. request.op \in {"upgrade"}
    BY <1>11, <1>a DEF RetireOld, Check, Command, StepOfRequest, InstallSteps, UpgradeSteps,
      SwapSteps, HelperExact
  <2>3. box' = Renamed("main", "previous") /\ helper' = "promoting"
    BY <1>11, <2>1, <2>2, <1>a, <1>b, <1>d DEF RetireOld, Check, Command, Three, Live, Created,
      Absent, Names, Running, Detached, CanRename
  <2>4. (Three(Absent, Live(request.image), Created(request.old)))'
    BY <2>1, <2>3, <1>a DEF Three, Names, Boxes, Renamed
  <2> QED
    BY <1>11, <2>2, <2>3, <2>4, <1>a DEF HelperExact, Moves
<1>12. CASE Promote
  <2>1. Three(Absent, Live(request.image), Created(request.old))
    BY <1>12, <1>a, <1>c DEF Promote, Check, Command, HelperExact
  <2>2. request.op \in {"upgrade"}
    BY <1>12, <1>a DEF Promote, Check, Command, StepOfRequest, InstallSteps, UpgradeSteps,
      SwapSteps, HelperExact
  <2>3. box' = Renamed("candidate", "main") /\ helper' = "confirming"
    BY <1>12, <2>1, <2>2, <1>a, <1>b, <1>d DEF Promote, Check, Command, Swapped, Three, Live,
      Created, Absent, Names, Running, Detached, CanRename
  <2>4. (Swapped(request))'
    BY <2>1, <2>3, <1>a DEF Swapped, Three, Names, Boxes, Renamed
  <2> QED
    BY <1>12, <2>2, <2>3, <2>4, <1>a DEF HelperExact, Moves
<1>13. CASE Confirm
  <2>1. Swapped(request)
    BY <1>13, <1>a, <1>c DEF Confirm, Check, Command, HelperExact
  <2>2. request.op \in {"upgrade"}
    BY <1>13, <1>a DEF Confirm, Check, Command, StepOfRequest, InstallSteps, UpgradeSteps,
      SwapSteps, HelperExact
  <2>3. box' = box /\ helper' = "ok"
    BY <1>13, <2>1, <2>2, <1>a, <1>b, <1>d DEF Confirm, Check, Command, Swapped, Three, Live,
      Created, Absent, Names, Running, Detached
  <2>4. (Swapped(request))'
    BY <2>1, <2>3, <1>a DEF Swapped, Three, Names, Boxes
  <2> QED
    BY <1>13, <2>2, <2>3, <2>4, <1>a DEF HelperExact, Moves, Result, Swapped
<1>14. CASE Clear
  <2>1. Three(Created(request.old), Live(request.image), Absent)
    BY <1>14, <1>a, <1>c DEF Clear, Check, Command, HelperExact
  <2>2. request.op \in {"upgrade"}
    BY <1>14, <1>a DEF Clear, Check, Command, StepOfRequest, InstallSteps, UpgradeSteps,
      SwapSteps, HelperExact
  <2>3. box' = Removed("candidate") /\ helper' = "reviving"
    BY <1>14, <2>1, <2>2, <1>a, <1>b, <1>d DEF Clear, Check, Command, Alone, Three, Live,
      Created, Absent, Names, Running, Detached
  <2>4. (Alone(Created(request.old)))'
    BY <2>1, <2>3, <1>a DEF Alone, Three, Names, Boxes, Removed
  <2> QED
    BY <1>14, <2>2, <2>3, <2>4, <1>a DEF HelperExact, Moves
<1>15. CASE Revive
  <2>1. Alone(Created(request.old))
    BY <1>15, <1>a, <1>c DEF Revive, Check, Command, HelperExact
  <2>2. request.op \in {"upgrade"}
    BY <1>15, <1>a DEF Revive, Check, Command, StepOfRequest, InstallSteps, UpgradeSteps,
      SwapSteps, HelperExact
  <2>3. box' = Started("main") /\ helper' = "error"
    BY <1>15, <2>1, <2>2, <1>a, <1>b, <1>d DEF Revive, Check, Command, Alone, Three, Live,
      Created, Absent, Names, Running, Detached
  <2>4. (Alone(Live(request.old)))'
    BY <2>1, <2>3, <1>a, UpOrDown DEF Alone, Three, Names, Boxes
  <2> QED
    BY <1>15, <2>2, <2>3, <2>4, <1>a DEF HelperExact, Moves
<1>16. CASE VerifyPair
  <2>1. Swapped(request)
    BY <1>16, <1>a, <1>c DEF VerifyPair, Check, Command, HelperExact
  <2>2. request.op \in {"commit", "rollback"}
    BY <1>16, <1>a DEF VerifyPair, Check, Command, StepOfRequest, InstallSteps, UpgradeSteps,
      SwapSteps, HelperExact
  <2>3. box' = box /\ helper' \in {"forgetting", "halting"}
    BY <1>16, <2>1, <2>2, <1>a, <1>b, <1>d DEF VerifyPair, Check, Command, Swapped, Three,
      Live, Created, Absent, Names, Running, Paired
  <2>4. (Swapped(request))'
    BY <2>1, <2>3, <1>a DEF Swapped, Three, Names, Boxes
  <2> QED
    BY <1>16, <2>2, <2>3, <2>4, <1>a DEF HelperExact, Moves, VerifyPair, Check, Command
<1>17. CASE Forget
  <2>1. Swapped(request)
    BY <1>17, <1>a, <1>c DEF Forget, Check, Command, HelperExact
  <2>2. request.op \in {"commit"}
    BY <1>17, <1>a DEF Forget, Check, Command, StepOfRequest, InstallSteps, UpgradeSteps,
      SwapSteps, HelperExact
  <2>3. box' = Removed("previous") /\ helper' = "ok"
    BY <1>17, <2>1, <2>2, <1>a, <1>b, <1>d DEF Forget, Check, Command, Alone, Swapped, Three,
      Live, Created, Absent, Names, Running
  <2>4. (Alone(Live(request.image)))'
    BY <2>1, <2>3, <1>a DEF Alone, Swapped, Three, Names, Boxes, Removed
  <2> QED
    BY <1>17, <2>2, <2>3, <2>4, <1>a DEF HelperExact, Moves, Result, Swapped
<1>18. CASE Halt
  <2>1. Swapped(request)
    BY <1>18, <1>a, <1>c DEF Halt, Check, Command, HelperExact
  <2>2. request.op \in {"rollback"}
    BY <1>18, <1>a DEF Halt, Check, Command, StepOfRequest, InstallSteps, UpgradeSteps,
      SwapSteps, HelperExact
  <2>3. box' = Stopped("main") /\ helper' = "dropping"
    BY <1>18, <2>1, <2>2, <1>a, <1>b, <1>d, <1>e DEF Halt, Check, Command, Swapped, Three,
      Live, Created, Absent, Names, Running
  <2>4. (Three(Created(request.image), Absent, Created(request.old)))'
    BY <2>1, <2>3, <1>a, UpOrDown DEF Swapped, Three, Names, Boxes
  <2> QED
    BY <1>18, <2>2, <2>3, <2>4, <1>a DEF HelperExact, Moves
<1>19. CASE Drop
  <2>1. Three(Created(request.image), Absent, Created(request.old))
    BY <1>19, <1>a, <1>c DEF Drop, Check, Command, HelperExact
  <2>2. request.op \in {"upgrade", "rollback"}
    BY <1>19, <1>a DEF Drop, Check, Command, StepOfRequest, InstallSteps, UpgradeSteps,
      SwapSteps, HelperExact
  <2>3. box' = Removed("main") /\ helper' = "renaming"
    BY <1>19, <2>1, <2>2, <1>a, <1>b, <1>d, <1>e DEF Drop, Check, Command, Three, Live,
      Created, Absent, Names, Running
  <2>4. (Three(Absent, Absent, Created(request.old)))'
    BY <2>1, <2>3, <1>a DEF Three, Names, Boxes, Removed
  <2> QED
    BY <1>19, <2>2, <2>3, <2>4, <1>a DEF HelperExact, Moves
<1>20. CASE Rename
  <2>1. Three(Absent, Absent, Created(request.old))
    BY <1>20, <1>a, <1>c DEF Rename, Check, Command, HelperExact
  <2>2. request.op \in {"upgrade", "rollback"}
    BY <1>20, <1>a DEF Rename, Check, Command, StepOfRequest, InstallSteps, UpgradeSteps,
      SwapSteps, HelperExact
  <2>3. box' = Renamed("previous", "main") /\ helper' = "relaunching"
    BY <1>20, <2>1, <2>2, <1>a, <1>b, <1>d, <1>e DEF Rename, Check, Command, Alone, Three,
      Live, Created, Absent, Names, Running, CanRename
  <2>4. (Alone(Created(request.old)))'
    BY <2>1, <2>3, <1>a DEF Alone, Three, Names, Boxes, Renamed
  <2> QED
    BY <1>20, <2>2, <2>3, <2>4, <1>a DEF HelperExact, Moves
<1>21. CASE Relaunch
  <2>1. Alone(Created(request.old))
    BY <1>21, <1>a, <1>c DEF Relaunch, Check, Command, HelperExact
  <2>2. request.op \in {"upgrade", "rollback"}
    BY <1>21, <1>a DEF Relaunch, Check, Command, StepOfRequest, InstallSteps, UpgradeSteps,
      SwapSteps, HelperExact
  <2>3. box' = Started("main") /\ helper' = "rechecking"
    BY <1>21, <2>1, <2>2, <1>a, <1>b, <1>d, <1>e DEF Relaunch, Check, Command, Alone, Three,
      Live, Created, Absent, Names, Running
  <2>4. (Alone(Live(request.old)))'
    BY <2>1, <2>3, <1>a, UpOrDown DEF Alone, Three, Names, Boxes
  <2> QED
    BY <1>21, <2>2, <2>3, <2>4, <1>a DEF HelperExact, Moves
<1>22. CASE Recheck
  <2>1. Alone(Live(request.old))
    BY <1>22, <1>a, <1>c DEF Recheck, Check, Command, HelperExact
  <2>2. request.op \in {"upgrade", "rollback"}
    BY <1>22, <1>a DEF Recheck, Check, Command, StepOfRequest, InstallSteps, UpgradeSteps,
      SwapSteps, HelperExact
  <2>3. box' = box /\ helper' \in {"ok", "error"}
    BY <1>22, <2>1, <2>2, <1>a, <1>b, <1>d, <1>e DEF Recheck, Check, Command, Alone, Three,
      Live, Created, Absent, Names, Running, Outcome
  <2>4. (Alone(Live(request.old)))'
    BY <2>1, <2>3, <1>a DEF Alone, Three, Names, Boxes
  <2> QED
    BY <1>22, <2>2, <2>3, <2>4, <1>a DEF HelperExact, Moves, Result, Swapped, Outcome, Recheck,
      Check, Command
<1>23. CASE Control
  <2>1. Settled /\ row # NoRow /\ row \in Row /\ request.op \in {"start", "stop", "restart"}
    BY <1>23, <1>a DEF Control, Command, HelperExact, KeepInv, TypeOK, ForRow, StepOfRequest
  <2>2. Three(box["main"], Absent, Absent) /\ box["main"] \in {Live(row.image), Created(row.image)}
    BY <2>1 DEF Settled, Alone, Three
  <2>3. row.image # 0
    BY <2>1, HelperAssumption DEF Row
  <2>4. /\ box' = IF request.op = "stop" THEN Stopped("main") ELSE Started("main")
        /\ helper' = "ok"
    BY <1>23, <2>2, <2>3, <1>a, <1>b DEF Control, Command, Live, Created, Names
  <2>5. Alone(IF request.op = "stop" THEN Created(row.image) ELSE Live(row.image))'
    BY <2>2, <2>4, <1>a, UpOrDown DEF Alone, Three, Names
  <2> QED
    BY <2>1, <2>4, <2>5, <1>a DEF HelperExact, Moves, Result
<1>24. CASE Remove
  <2>1. Settled /\ request.op = "remove"
    BY <1>24, <1>a DEF Remove, Command, HelperExact, StepOfRequest
  <2>2. box' = Removed("main") /\ helper' = "ok"
    BY <1>24, <1>a DEF Remove, Command
  <2>3. Alone(Absent)'
    BY <2>1, <2>2, <1>a DEF Settled, Alone, Three, Removed, Names, Boxes
  <2> QED
    BY <2>1, <2>2, <2>3, <1>a DEF HelperExact, Moves, Result
<1>25. CASE Discard \/ Resume \/ Unstage \/ Undo \/ Restore
  BY <1>25 DEF Discard, Resume, Unstage, Undo, Restore, Command, HelperExact
<1> QED
  BY <1>1, <1>2, <1>3, <1>4, <1>5, <1>6, <1>7, <1>8, <1>9, <1>10, <1>11, <1>12, <1>13, <1>14,
    <1>15, <1>16, <1>17, <1>18, <1>19, <1>20, <1>21, <1>22, <1>23, <1>24, <1>25
    DEF CommandStep, Installing, Upgrading, Settling

(* The same for the registry's steps.                                      *)
LEMMA CoreIsExact ==
  ASSUME KeepInv, HelperExact, CoreExact, Next, ~HelperStep, NoFault, UNCHANGED <<hangups, crashes, deaths>>, faults = 0
  PROVE  HelperExact' /\ CoreExact'
<1>a. Linked /\ RowStays /\ DoneIsSo /\ task \in Requests /\ row \in Row \cup {NoRow} /\ hangups \in Nat /\ crashes \in Nat /\ deaths \in Nat
  BY DEF KeepInv, TypeOK
<1>1. core \in {"idle", "committing", "compensating"} => helper = "idle"
  BY <1>a DEF CoreExact, Linked
<1>2. ASSUME NEW i \in Images, InstallManifest(i) PROVE HelperExact' /\ CoreExact'
  <2>1. row = NoRow /\ Settled /\ core' = "calling" 
    BY <1>2 DEF InstallManifest, Call, CoreExact, Settled, NoRow
  <2>2. Alone(Absent)
    BY <2>1 DEF Settled, NoRow
  <2>3. box' = box /\ helper' = "inspecting" /\ request'.op = "install" /\ linked' = TRUE /\ cancelled' = FALSE /\ answer' = "none"
    BY <1>1, <1>2, <2>1 DEF InstallManifest, Call, Ask, FirstStep
  <2> QED
    BY <2>1, <2>2, <2>3 DEF HelperExact, CoreExact, Alone, Three
<1>3. ASSUME NEW i \in Images, UpgradeManifest(i) PROVE HelperExact' /\ CoreExact'
  <2>1. Settled /\ core' = "calling" /\ row' = row
    BY <1>3 DEF UpgradeManifest, Call, CoreExact
  <2>2. box' = box /\ helper' = "checking" /\ linked' = TRUE /\ cancelled' = FALSE /\ answer' = "none"
    BY <1>1, <1>3, <2>1 DEF UpgradeManifest, Call, Ask, FirstStep
  <2> QED
    BY <2>1, <2>2 DEF HelperExact, CoreExact, Settled, Alone, Three
<1>4. ASSUME NEW op \in {"start", "stop", "restart"}, ControlModule(op) PROVE HelperExact' /\ CoreExact'
  <2>1. Settled /\ core' = "calling" /\ row' = row
    BY <1>4 DEF ControlModule, Call, CoreExact
  <2>2. box' = box /\ helper' = "controlling" /\ linked' = TRUE /\ cancelled' = FALSE /\ answer' = "none"
    BY <1>1, <1>4, <2>1 DEF ControlModule, Call, Ask, FirstStep
  <2> QED
    BY <2>1, <2>2 DEF HelperExact, CoreExact, Settled, Alone, Three
<1>5. ASSUME RemoveModule PROVE HelperExact' /\ CoreExact'
  <2>1. Settled /\ core' = "calling" /\ row' = row
    BY <1>5 DEF RemoveModule, Call, CoreExact
  <2>2. box' = box /\ helper' = "removing" /\ linked' = TRUE /\ cancelled' = FALSE /\ answer' = "none"
    BY <1>1, <1>5, <2>1 DEF RemoveModule, Call, Ask, FirstStep
  <2> QED
    BY <2>1, <2>2 DEF HelperExact, CoreExact, Settled, Alone, Three
<1>6. ASSUME core # "idle", answer # "none", UNCHANGED helperVars \/ UNCHANGED <<box, helper, request, linked, cancelled, answer>>
      PROVE  helper = "idle" /\ helper' = "idle" /\ box' = box /\ HelperExact'
  <2>1. helper = "idle"
    BY <1>6, <1>a DEF HelperExact, Linked
  <2> QED
    BY <1>6, <2>1 DEF HelperExact, helperVars
<1>7. CASE Refused
  <2>1. row' = row /\ row = [image |-> task.old, status |-> "enabled"] /\ Alone(Live(task.old)) /\ core' = "idle"
    BY <1>7 DEF Refused, Answered, CoreExact
  <2>2. Settled'
    BY <2>1, <1>6, <1>7 DEF Refused, Answered, Settled, Alone, Three
  <2> QED
    BY <2>1, <2>2, <1>6, <1>7 DEF Refused, Answered, CoreExact
<1>8. CASE Record
  <2>1. row' = After(task.op) /\ core' = "idle" /\ Result(task) /\ row # NoRow /\ ForRow(task) /\ task.op \in Operations \ {"upgrade", "commit", "rollback"}
    BY <1>8, <1>a DEF Record, Answered, CoreExact, Fault, NoFault, RowStays, ForRow, Linked,
      Requests
  <2>2. helper' = "idle" /\ box' = box /\ HelperExact'
    BY <1>6, <1>8 DEF Record, Answered
  <2>3. CASE task.op = "remove"
    BY <2>1, <2>2, <2>3 DEF After, Result, CoreExact, Settled, Alone, Three
  <2>4. CASE task.op = "stop"
    <3>1. row'.status = "disabled" /\ row'.image = row.image
      BY <2>1, <2>4, <1>a DEF After, Row
    <3> QED
      BY <2>1, <2>2, <2>4, <3>1 DEF Result, CoreExact, Settled, Alone, Three
  <2>5. CASE task.op \in {"install", "start", "restart"}
    <3>1. row'.status = "enabled" /\ row'.image = row.image
      BY <2>1, <2>5, <1>a DEF After, Row
    <3>2. Alone(Live(row.image))
      BY <2>1, <2>5 DEF Result, ForRow
    <3> QED
      BY <2>1, <2>2, <3>1, <3>2 DEF CoreExact, Settled, Alone, Three
  <2> QED
    BY <2>1, <2>3, <2>4, <2>5 DEF Operations
<1>9. CASE PersistUpgrade
  <2>1. core' \in {"committing", "compensating"} /\ task' = task /\ Swapped(task)
    BY <1>9 DEF PersistUpgrade, Answered, CoreExact, Result
  <2> QED
    BY <1>6, <1>9, <2>1 DEF PersistUpgrade, Answered, CoreExact, Swapped, Three
<1>10. ASSUME Commit \/ Rollback PROVE HelperExact' /\ CoreExact'
  <2>1. /\ Swapped(task) /\ task' = task /\ row' = row
        /\ (core = "committing" /\ core' = "cleaning") \/ (core = "compensating" /\ core' = "undoing")
    BY <1>10 DEF Commit, Rollback, CoreExact
  <2>2. /\ box' = box /\ helper' = "pairing" /\ linked' = TRUE /\ cancelled' = FALSE /\ answer' = "none"
        /\ request'.image = task.image /\ request'.old = task.old
    BY <1>1, <1>10, <2>1, <1>a DEF Commit, Rollback, Ask, FirstStep, Requests
  <2>3. HelperExact'
    BY <2>1, <2>2 DEF HelperExact, Swapped, Three
  <2> QED
    BY <2>1, <2>2, <2>3, <1>a DEF CoreExact, RowStays
<1>11. CASE Finish
  <2>1. /\ row' = row /\ core' = "idle"
        /\ \E i : row = [image |-> i, status |-> "enabled"] /\ Alone(Live(i))
    BY <1>11 DEF Finish, CoreExact
  <2>2. helper' = "idle" /\ box' = box /\ HelperExact'
    BY <1>6, <1>11 DEF Finish
  <2>3. Settled'
    BY <2>1, <2>2 DEF Settled, Alone, Three
  <2> QED
    BY <2>1, <2>2, <2>3 DEF CoreExact
<1>12. ~HangUp /\ ~CoreDies /\ ~HelperCrash
  BY <1>a DEF HangUp, CoreDies, HelperCrash
<1> QED
  BY <1>2, <1>3, <1>4, <1>5, <1>7, <1>8, <1>9, <1>10, <1>11, <1>12 DEF Next, CoreStep

(* Exact is preserved by every step.                                       *)
LEMMA StepIsExact ==
  ASSUME KeepInv, Exact, [Next]_vars
  PROVE  Exact'
<1>a. HelperTypeOK /\ Linked /\ RowStays /\ task \in Requests /\ {faults, hangups, crashes, deaths} \subseteq Nat /\ request \in Requests
  BY RegistryAssumption, HelperAssumption DEF KeepInv, TypeOK, HelperTypeOK
<1>b. CASE UNCHANGED vars
  BY <1>b DEF vars, helperVars, budget, Exact, Undisturbed, HelperExact, CoreExact, Swapped,
    Alone, Three, Settled, Result
<1> SUFFICES ASSUME Undisturbed', Next
             PROVE  HelperExact' /\ CoreExact'
  BY <1>b DEF Exact
<1>c. Undisturbed /\ NoFault /\ ~Fault /\ UNCHANGED <<hangups, crashes, deaths>>
  <2>1. /\ hangups' \in {hangups, hangups + 1} /\ crashes' \in {crashes, crashes + 1}
        /\ deaths' \in {deaths, deaths + 1}
    BY DEF Next, InstallManifest, UpgradeManifest, ControlModule, RemoveModule, CoreStep,
      Refused, Record, PersistUpgrade, Commit, Rollback, Finish, HelperStep, HangUp, CoreDies,
      HelperCrash, budget
  <2>2. NoFault \/ Fault
    <3>1. CASE HelperStep
      BY <3>1, FaultOrNot DEF HelperStep, Working, CommandStep, Reply, NoticeHangUp, NoFault
    <3>2. CASE ~HelperStep
      BY <3>2 DEF Next, InstallManifest, UpgradeManifest, ControlModule, RemoveModule, Call,
        Ask, CoreStep, Refused, Record, PersistUpgrade, Commit, Rollback, Finish, HangUp,
        CoreDies, Abandon, HelperCrash, HelperDies, helperVars, NoFault
    <3> QED
      BY <3>1, <3>2
  <2> QED
    BY <2>1, <2>2, <1>a DEF Undisturbed, NoFault, Fault
<1>d. HelperExact /\ CoreExact
  BY <1>c DEF Exact
<1>1. CASE HelperStep /\ CommandStep
  <2>1. UNCHANGED <<row, core, task, answer>> /\ helper # "idle" /\ StepOfRequest
    BY <1>1, HelperMoves DEF HelperStep, Moves, KeepInv, TypeOK, HelperTypeOK, Requests
  <2>2. HelperExact'
    BY <1>1, <1>c, <1>d, <2>1, HelperIsExact
  <2>3. core \in {"calling", "cleaning", "undoing"} /\ answer = "none"
    BY <2>1, <1>a, <1>d DEF HelperExact, Linked, Called
  <2> QED
    BY <2>1, <2>2, <2>3, <1>d DEF CoreExact
<1>2. CASE HelperStep /\ Reply
  <2>1. /\ UNCHANGED <<row, core, task, box>> /\ helper \in {"ok", "error"} /\ helper' = "idle"
        /\ answer' = helper /\ linked /\ Called /\ request = Asked
    BY <1>2, <1>a, <1>d DEF HelperStep, Reply, HelperExact, Linked
  <2>2. HelperExact'
    BY <2>1 DEF HelperExact
  <2>3. CASE core = "calling"
    <3>1. request = task /\ ForRow(task)
      BY <2>1, <2>3, <1>a DEF Asked, RowStays
    <3> QED
      BY <2>1, <2>2, <2>3, <3>1, <1>a, <1>d DEF HelperExact, CoreExact, ForRow, Linked, Result,
        Swapped, Alone, Three
  <2>4. CASE core = "cleaning"
    <3>1. request.op = "commit" /\ request.image = task.image
      BY <2>1, <2>4, <1>a DEF Asked, Requests
    <3> QED
      BY <2>1, <2>2, <2>4, <3>1, <1>d DEF HelperExact, CoreExact, Result, Alone, Three
  <2>5. CASE core = "undoing"
    <3>1. request.op = "rollback" /\ request.old = task.old
      BY <2>1, <2>5, <1>a DEF Asked, Requests
    <3> QED
      BY <2>1, <2>2, <2>5, <3>1, <1>d DEF HelperExact, CoreExact, Result, Alone, Three
  <2> QED
    BY <2>1, <2>3, <2>4, <2>5 DEF Called
<1>3. CASE HelperStep /\ NoticeHangUp
  BY <1>3, <1>d DEF NoticeHangUp, HelperExact
<1>4. CASE ~HelperStep
  BY <1>4, <1>c, <1>d, CoreIsExact DEF Undisturbed
<1> QED
  BY <1>1, <1>2, <1>3, <1>4 DEF HelperStep, Working, CommandStep

(* RowTellsContainers: between undisturbed operations Docker runs what the *)
(* row says and no upgrade has left a container behind.                    *)
THEOREM RowIsTold == Spec => []RowTellsContainers
<1>1. Init => Exact
  BY DEF Init, HelperInit, Exact, HelperExact, CoreExact, Settled, Alone, Three, Names
<1>2. KeepInv /\ Exact /\ [Next]_vars => Exact'
  BY StepIsExact
<1>3. KeepInv /\ Exact => RowTellsContainers
  <2> SUFFICES ASSUME KeepInv, Exact, Quiet, Undisturbed
               PROVE  RowTellsContainers
    BY DEF KeepInv, RowTellsContainers
  <2>1. Settled
    BY DEF Exact, CoreExact, Quiet
  <2> QED
    BY <2>1 DEF KeepInv, Settled, RowTellsContainers, Alone, Three, Live, Created, Exists, NoRow
<1> QED
  BY <1>1, <1>2, <1>3, KeepCorrect, PTL DEF Spec
===============================================================================
