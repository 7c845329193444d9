----------------------------- MODULE MCJobEngine -----------------------------
(* Instances of JobEngine for TLC: two workers on a replayable and an      *)
(* ordinary job while every store call succeeds, and one worker on an      *)
(* ordinary job, which reports progress, and one without a handler while a *)
(* call may fail.                                                          *)
EXTENDS JobEngine

CONSTANTS j1, j2, j3, w1, w2, c1

MCJobs    == {j1, j2, j3}
MCInstall == {j1}
MCKnown   == {j1, j2}
OneJob    == {j1}
NoJobs    == {}
OneWorker == {w1}
MCWorkers == {w1, w2}
MCCallers == {c1}

VARIABLE shift      \* who works on what

Shifts == {[jobs |-> {j1, j2}, crew |-> {w1, w2}, faults |-> 0, reports |-> {}],
           [jobs |-> {j2, j3}, crew |-> {w1}, faults |-> 1, reports |-> Reports]}

MCInit == Init /\ shift \in Shifts
MCNext ==
  /\ Next /\ UNCHANGED shift
  /\ \A j \in Jobs \ shift.jobs : submit'[j] = "new"
  /\ \A w \in Workers \ shift.crew : pc'[w] = "looking"
  /\ faults' <= shift.faults
  /\ \A j \in Jobs : job'[j].progress \in {0, Full} \cup shift.reports

(* EngineFairness and HandlersReturn for the workers that are there.       *)
MCFairness ==
  /\ \A w \in Workers :
       /\ WF_vars(w \in shift.crew /\ Looking(w)) /\ WF_vars(w \in shift.crew /\ Settling(w))
       /\ WF_vars(w \in shift.crew /\ ReturnFromHandler(w))
  /\ WF_vars(RecoverInterruptedJobs) /\ WF_vars(Exit)

MCSpec == MCInit /\ [][MCNext]_<<vars, shift>> /\ MCFairness
=============================================================================
