------------------------------ MODULE DockerSaga ------------------------------
(***************************************************************************)
(* What the special container operations of the privileged helper have in  *)
(* common: Frigate, Home Assistant and the AI Agent's devices each have a  *)
(* sequence of Docker commands of their own (FrigateUpgrade,               *)
(* HomeAssistantUpgrade, AIDevices), all under the helper's one lock.      *)
(*                                                                         *)
(* An image is the number of its version, and a directory holds data of    *)
(* the newest version that ever ran on it: data is migrated forward, never *)
(* back.  Between two commands the helper or the host may die, and Core    *)
(* may lose the answer; a command may fail with or without its effect.     *)
(***************************************************************************)
EXTENDS Integers

CONSTANTS
  Images,       (* versions of a module's image                            *)
  Dirs,         (* configuration directories                               *)
  MaxFaults,    (* bound: commands, writes and health checks that fail     *)
  MaxCrashes,   (* bound: deaths of the helper and of Core                 *)
  MaxRequests   (* bound: operations asked of the helper                   *)

ASSUME SagaAssumption ==
  /\ Images \subseteq Nat \ {0} /\ 1 \in Images /\ Dirs \subseteq Nat \ {0} /\ 1 \in Dirs
  /\ MaxFaults \in Nat /\ MaxCrashes \in Nat /\ MaxRequests \in Nat

VARIABLES
  box,       (* the container under each name                              *)
  data,      (* the version of the data in each directory, 0: no directory *)
  pc,        (* the helper's next command, "idle" when its lock is free    *)
  ask,       (* the operation it serves                                    *)
  linked,    (* Core still waits for the answer                            *)
  row,       (* the image Core has registered, 0: not installed            *)
  removed,   (* a removal is under way, or has taken the container (history) *)
  faults, crashes, requests

sagaVars == <<box, data, pc, ask, linked, row, removed, faults, crashes, requests>>

Names  == {"main", "candidate", "previous"}
Absent == [image |-> 0, dir |-> 0, up |-> FALSE]
Created(i, d) == [image |-> i, dir |-> d, up |-> FALSE]

Exists(n)  == box[n] # Absent
Running(n) == box[n].up
StageFree  == ~Exists("candidate") /\ ~Exists("previous")

Started(n)    == [box EXCEPT ![n] = [@ EXCEPT !.up = TRUE]]
Stopped(n)    == [box EXCEPT ![n] = [@ EXCEPT !.up = FALSE]]
Removed(n)    == [box EXCEPT ![n] = Absent]
Renamed(m, n) == [box EXCEPT ![n] = box[m], ![m] = Absent]
CanRename(m, n) == Exists(m) /\ ~Exists(n)

Fault == faults < MaxFaults /\ faults' = faults + 1

Frame == UNCHANGED <<ask, linked, row, removed, crashes, requests>>

(* One Docker command or look at Docker.  It succeeds and the helper goes  *)
(* on with ok.  Or it goes on with bad: the command cannot succeed, or it  *)
(* fails or runs out of time, perhaps after it had its effect.             *)
Command(step, can, effect, ok, bad) ==
  /\ pc = step /\ Frame /\ UNCHANGED data
  /\ \/ can /\ box' = effect /\ pc' = ok /\ UNCHANGED faults
     \/ ~can /\ pc' = bad /\ UNCHANGED <<box, faults>>
     \/ can /\ Fault /\ box' \in {box, effect} /\ pc' = bad
Check(step, holds, ok, bad) == Command(step, holds, box, ok, bad)

(* A file operation of the helper: the same outcomes for its own file.     *)
Write(step, done, skipped, ok, bad) ==
  /\ pc = step /\ Frame /\ UNCHANGED box
  /\ \/ done /\ pc' = ok /\ UNCHANGED faults
     \/ (done \/ skipped) /\ pc' = bad /\ Fault

(* A running container brings its directory to its own version.            *)
Migrate ==
  \E n \in Names :
    /\ Running(n) /\ data[box[n].dir] \in 1..(box[n].image - 1)
    /\ data' = [data EXCEPT ![box[n].dir] = box[n].image]
    /\ UNCHANGED <<box, pc, faults>> /\ Frame

(* Core asks for an operation when its registry is free and the helper's   *)
(* lock too; otherwise the request is refused and nothing changes.         *)
Ask(request, first) ==
  /\ pc = "idle" /\ requests < MaxRequests
  /\ ask' = request /\ pc' = first /\ linked' = TRUE /\ requests' = requests + 1
  /\ removed' = (request.op = "remove" \/ (removed /\ request.op # "install" /\ ~Exists("main")))
  /\ UNCHANGED <<box, data, row, faults, crashes>>

(* The answer of an upgrade: Core registers the new image and asks for the *)
(* commit, or could not register it and asks for the rollback.             *)
Registered(first) ==
  /\ pc = "ok" /\ linked /\ ask.op = "upgrade"
  /\ \/ row' = ask.new /\ ask' = [ask EXCEPT !.op = "commit"] /\ UNCHANGED faults
     \/ UNCHANGED row /\ ask' = [ask EXCEPT !.op = "rollback"] /\ Fault
  /\ pc' = first
  /\ UNCHANGED <<box, data, linked, removed, crashes, requests>>

(* Any other answer ends the operation.                                    *)
Answered ==
  /\ \/ pc = "error"
     \/ pc = "ok" /\ (ask.op # "upgrade" \/ ~linked)
  /\ row' = IF pc = "error" \/ ~linked THEN row
            ELSE CASE ask.op = "remove" -> 0 [] ask.op = "install" -> ask.new [] OTHER -> row
  /\ pc' = "idle"
  /\ UNCHANGED <<box, data, ask, linked, removed, faults, crashes, requests>>

Crash == crashes < MaxCrashes /\ crashes' = crashes + 1

CoreDies ==
  /\ pc # "idle" /\ linked /\ linked' = FALSE /\ Crash
  /\ UNCHANGED <<box, data, pc, ask, row, removed, faults, requests>>

HelperDies ==
  /\ pc \notin {"idle", "ok", "error"} /\ pc' = "idle" /\ Crash
  /\ UNCHANGED <<box, data, ask, linked, row, removed, faults, requests>>

SagaTypeOK ==
  /\ box \in [Names -> [image : Images \cup {0}, dir : Dirs \cup {0}, up : BOOLEAN]]
  /\ data \in [Dirs -> Images \cup {0}]
  /\ row \in Images \cup {0} /\ linked \in BOOLEAN /\ removed \in BOOLEAN
  /\ faults \in 0..MaxFaults /\ crashes \in 0..MaxCrashes /\ requests \in 0..MaxRequests

(* Installed and served, the first image on the first directory, or not    *)
(* installed yet.                                                          *)
SagaInit ==
  /\ row \in {0, 1}
  /\ box = [n \in Names |-> IF n = "main" /\ row = 1 THEN [image |-> 1, dir |-> 1, up |-> TRUE] ELSE Absent]
  /\ data = [d \in Dirs |-> IF d = 1 THEN row ELSE 0]
  /\ pc = "idle" /\ ask = [op |-> "none", new |-> 1, old |-> 1] /\ linked = FALSE
  /\ removed = FALSE /\ faults = 0 /\ crashes = 0 /\ requests = 0

-----------------------------------------------------------------------------
(* The properties all three share.                                         *)

(* "never restarts old code on migrated data" (recoverFrigateTransaction): *)
(* no container runs on data newer than its own image.                     *)
OldCodeOnItsData ==
  \A n \in Names : Running(n) => data[box[n].dir] <= box[n].image

(* Two containers never write one directory at a time.                     *)
OneWriter ==
  \A m, n \in Names : Running(m) /\ Running(n) /\ m # n => box[m].dir # box[n].dir

(* Unless a removal that was asked for is under way or has taken it, some  *)
(* container has the image that Core has registered and a directory that   *)
(* image can read, or its data is safe elsewhere.                          *)
RegisteredImageKept(saved) ==
  row # 0 /\ ~removed =>
    \E n \in Names : box[n].image = row /\ (data[box[n].dir] \in 1..row \/ saved)
==============================================================================
