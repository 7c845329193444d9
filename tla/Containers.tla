------------------------------ MODULE Containers ------------------------------
(***************************************************************************)
(* The modules with container operations of their own, beside each other:  *)
(* Frigate, Home Assistant, the AI Agent's devices and the recorder.  In a *)
(* behaviour one part runs and the variables of the others stay: the       *)
(* helper's lock lets one operation run at a time and the modules'         *)
(* containers and files are disjoint.                                      *)
(***************************************************************************)
EXTENDS FrigateUpgrade, HomeAssistantUpgrade, AIDevices, NVRStorage

VARIABLE part

containerVars == <<part, sagaVars, frigateVars, haVars, aiVars, nvrVars>>

NoFrigate == backup = 0 /\ disk = NoTxn /\ mem = NoTxn /\ aside = 0
NoHA      == active = NoRecord /\ old = NoRecord /\ fresh = 0
NoAI      == cached = FALSE /\ moved = FALSE /\ ready = FALSE
NoNVR     == path = "none" /\ place = <<>> /\ bound = Own /\ plugged = FALSE /\ assigned = FALSE
               /\ recording = 0 /\ seen = 0 /\ moves = 0

ContainersInit ==
  \/ part = "frigate" /\ FrigateInit /\ NoHA /\ NoAI /\ NoNVR
  \/ part = "home assistant" /\ HAInit /\ NoFrigate /\ NoAI /\ NoNVR
  \/ part = "ai" /\ AIInit /\ NoFrigate /\ NoHA /\ NoNVR
  \/ part = "recorder" /\ NVRInit /\ NoFrigate /\ NoHA /\ NoAI
ContainersNext ==
  /\ UNCHANGED part
  /\ \/ part = "frigate" /\ FrigateNext /\ UNCHANGED <<haVars, aiVars, nvrVars>>
     \/ part = "home assistant" /\ HANext /\ UNCHANGED <<frigateVars, aiVars, nvrVars>>
     \/ part = "ai" /\ AINext /\ UNCHANGED <<frigateVars, haVars, nvrVars>>
     \/ part = "recorder" /\ NVRNext /\ UNCHANGED <<frigateVars, haVars, aiVars>>
ContainersSpec == ContainersInit /\ [][ContainersNext]_containerVars

-----------------------------------------------------------------------------
(* Two containers never write one directory at a time; of the AI Agent a   *)
(* single failed command cannot make two (OneAgent).                       *)
OneWriterOfData == IF part = "ai" THEN OneAgent ELSE OneWriter

(* Whatever fails or dies, what Core has registered can still be served,   *)
(* unless its removal was asked for (RegisteredImageKept); of the AI Agent,*)
(* whose two images are of the one registered build, in one of its modes.  *)
RegisteredKept ==
  IF part = "ai" THEN AgentSurvives ELSE RegisteredImageKept((part = "frigate" /\ Pending) \/ part = "recorder")

(* No image ever runs on data it cannot read, none is lost to a copy, and  *)
(* a running recorder has all it recorded.                                 *)
ContainersTypeOK ==
  /\ part = "frigate" => FrigateTypeOK
  /\ part = "home assistant" => HATypeOK
  /\ part = "ai" => AITypeOK
  /\ part = "recorder" => SagaTypeOK
DataFitsCode ==
  ContainersTypeOK /\ OldCodeOnItsData /\ OldDataKept /\ (part = "recorder" => RecordingsAreSeen)

(* What the journals and records say of the containers is so.              *)
RecordsAreTrue ==
  CommitIsFinal /\ ActiveIsTrue /\ AppliedIsServed /\ (part = "recorder" => ActivatedIsOnDisk)
==============================================================================
