--------------------------- MODULE JobEngineProofs ---------------------------
(***************************************************************************)
(* Proofs, for every set of jobs, workers and callers, of the safety of    *)
(* JobEngine: its types, the consistency of the rows, one worker per job,  *)
(* no second start, true final events, and the refinement of JobLifecycle. *)
(***************************************************************************)
EXTENDS JobEngine, TLAPS

(* From the claim to the write of the outcome the row stays live: only its *)
(* worker can finish it, because recovery runs before any worker claims.   *)
Finishing == {"claimed", "known", "unknown", "starting", "handling",
              "returned", "reading", "cancelling", "recording"}

Entered == {"handling", "returned", "reading", "cancelling", "recording", "announcing"}

(* Who holds what: a worker has a job exactly while it owns one, no two    *)
(* have the same one, and none has any before recovery.                    *)
Owners ==
  /\ \A w \in Workers : pc[w] \in Owning <=> wjob[w] # None
  /\ \A v, w \in Workers : v # w /\ wjob[v] # None => wjob[v] # wjob[w]
  /\ \A j \in Jobs : active[j] # None => wjob[active[j]] = j
  /\ \A j \in Jobs : active[j] # None => pc[active[j]] \in {"starting", "handling", "returned"}
  /\ engine \in {"recovering", "dead"} => \A w \in Workers : wjob[w] = None

(* What the place of a worker says of the row it holds.                    *)
OwnedRows ==
  /\ \A w \in Workers : wjob[w] # None => job[wjob[w]].status \notin {"none", "queued"}
  /\ \A w \in Workers : pc[w] \in Finishing => job[wjob[w]].status \in Live
  /\ \A w \in Workers : pc[w] = "cancelling" => job[wjob[w]].status = "cancel_requested"
  /\ \A j \in Jobs : submit[j] = "new" => job[j].status = "none"

(* Where a handler has been entered, and where it has not.                 *)
StartsCounted ==
  /\ \A w \in Workers : pc[w] \in Entered => starts[wjob[w]] > 0
  /\ \A w \in Workers : pc[w] \in {"claimed", "known", "starting"} /\ wjob[w] \notin InstallJobs
                          => starts[wjob[w]] = 0
  /\ \A j \in Jobs \ InstallJobs : job[j].status \in {"none", "queued"} => starts[j] = 0
  /\ \A j \in Jobs \ InstallJobs : starts[j] <= 1

Outcomes ==
  \A w \in Workers : pc[w] \in {"returned", "reading", "recording"}
                       => outcome[w] \in {"ok", "error", "canceled"}

IInv == TypeOK /\ RowsAgree /\ Owners /\ OwnedRows /\ StartsCounted /\ Outcomes

-----------------------------------------------------------------------------
(* The statements of the store keep a row a row.                           *)
LEMMA RowOps ==
  /\ NoRow \in Row
  /\ [NoRow EXCEPT !.status = "deleted"] \in Row
  /\ \A k \in CreatedKeys : Queued(k) \in Row
  /\ \A r \in Row : Claimed(r) \in Row
  /\ \A r \in Row : Completed(r) \in Row
  /\ \A r \in Row, code \in Errors : Failed(r, code) \in Row
  /\ \A r \in Row : MarkedCancelled(r) \in Row
  /\ \A r \in Row : CancelRequested(r) \in Row
  /\ \A r \in Row, j \in Jobs : Recovered(j, r) \in Row
  /\ \A r \in Row, p \in Reports : [r EXCEPT !.progress = p] \in Row
<1>1. 0 \in 0..Full /\ Full \in 0..Full
  BY DEF Full
<1>2. NoRow \in Row
  BY <1>1 DEF NoRow, Row, Statuses, Errors
<1>3. [NoRow EXCEPT !.status = "deleted"] \in Row
  BY <1>1 DEF NoRow, Row, Statuses, Errors
<1>4. \A k \in CreatedKeys : Queued(k) \in Row
  BY <1>1 DEF Queued, NoRow, Row, Statuses, Errors
<1>5. \A r \in Row : Claimed(r) \in Row
  BY DEF Claimed, Row, Statuses, Live
<1>6. \A r \in Row : Completed(r) \in Row
  BY <1>1, ZenonT(30) DEF Completed, Row, Statuses, Terminal, Errors
<1>7. \A r \in Row, code \in Errors : Failed(r, code) \in Row
  BY DEF Failed, Row, Statuses, Terminal
<1>8. \A r \in Row : MarkedCancelled(r) \in Row
  BY DEF MarkedCancelled, Row, Statuses, Terminal
<1>9. \A r \in Row : CancelRequested(r) \in Row
  BY DEF CancelRequested, Row, Statuses, Terminal, Live
<1>10. \A r \in Row, j \in Jobs : Recovered(j, r) \in Row
  BY ZenonT(30) DEF Recovered, Row, Statuses, Terminal, Errors
<1>11. \A r \in Row, p \in Reports : [r EXCEPT !.progress = p] \in Row
  <2>1. \A p \in Reports : p \in 0..Full
    BY EngineAssumption
  <2> QED BY <2>1 DEF Row
<1> QED
  BY <1>2, <1>3, <1>4, <1>5, <1>6, <1>7, <1>8, <1>9, <1>10, <1>11

-----------------------------------------------------------------------------
(* A step fails at most one store call, and only while the bound allows.   *)
LEMMA FaultBound ==
  ASSUME BoundsOK, UNCHANGED crashes, Fault \/ NoFault
  PROVE  BoundsOK'
<1>1. CASE Fault
  BY <1>1, EngineAssumption DEF BoundsOK, Fault
<1>2. CASE NoFault
  BY <1>2 DEF BoundsOK, NoFault
<1> QED
  BY <1>1, <1>2

(* Types.  The steps of a worker need that it holds a job and, when it     *)
(* records an outcome, that there is one.                                  *)
OwnedTypes ==
  /\ \A w \in Workers : pc[w] \in Owning => wjob[w] \in Jobs
  /\ Outcomes

LEMMA TypeStep ==
  ASSUME TypeOK, OwnedTypes, [Next]_vars
  PROVE  TypeOK'
<1> USE EngineAssumption
<1>1. ASSUME NEW j \in Jobs, CreateJob(j) PROVE TypeOK'
  <2>1. ServiceOK' /\ WorkersOK' /\ BoundsOK'
    BY <1>1 DEF TypeOK, ServiceOK, WorkersOK, BoundsOK, CreateJob, worker
  <2>2. TablesOK'
    BY <1>1, RowOps DEF TypeOK, TablesOK, CreateJob
  <2>3. RequestsOK'
    BY <1>1 DEF TypeOK, RequestsOK, CreateJob, SubmitStep, callers
  <2> QED
    BY <2>1, <2>2, <2>3 DEF TypeOK
<1>2. ASSUME NEW j \in Jobs, Signal(j) PROVE TypeOK'
  <2>1. TablesOK' /\ WorkersOK' /\ BoundsOK'
    BY <1>2 DEF TypeOK, TablesOK, WorkersOK, BoundsOK, Signal, db, worker
  <2>2. ServiceOK'
    BY <1>2 DEF TypeOK, ServiceOK, Signal
  <2>3. RequestsOK'
    BY <1>2 DEF TypeOK, RequestsOK, Signal, SubmitStep, callers
  <2> QED
    BY <2>1, <2>2, <2>3 DEF TypeOK
<1>3. ASSUME NEW c \in Callers, NEW j \in Jobs, RequestJobCancel(c, j) PROVE TypeOK'
  <2>1. ServiceOK' /\ WorkersOK' /\ BoundsOK'
    BY <1>3 DEF TypeOK, ServiceOK, WorkersOK, BoundsOK, RequestJobCancel, worker
  <2>2. TablesOK'
    BY <1>3, RowOps DEF TypeOK, TablesOK, RequestJobCancel
  <2>3. RequestsOK'
    BY <1>3 DEF TypeOK, RequestsOK, RequestJobCancel, CallerStep
  <2> QED
    BY <2>1, <2>2, <2>3 DEF TypeOK
<1>4. ASSUME NEW c \in Callers, ReadCancelled(c) PROVE TypeOK'
  <2>1. TablesOK' /\ ServiceOK' /\ WorkersOK'
    BY <1>4 DEF TypeOK, TablesOK, ServiceOK, WorkersOK, ReadCancelled, db, worker
  <2>2. RequestsOK'
    BY <1>4 DEF TypeOK, RequestsOK, ReadCancelled, CallerStep, CallerDone
  <2>3. BoundsOK'
    BY <1>4, FaultBound DEF TypeOK, ReadCancelled
  <2> QED
    BY <2>1, <2>2, <2>3 DEF TypeOK
<1>5. ASSUME NEW c \in Callers, CancelHandler(c) PROVE TypeOK'
  <2>1. TablesOK' /\ ServiceOK' /\ BoundsOK'
    BY <1>5 DEF TypeOK, TablesOK, ServiceOK, BoundsOK, CancelHandler, db
  <2>2. WorkersOK'
    BY <1>5 DEF TypeOK, WorkersOK, CancelHandler, Idle
  <2>3. RequestsOK'
    BY <1>5 DEF TypeOK, RequestsOK, CancelHandler, CallerStep
  <2> QED
    BY <2>1, <2>2, <2>3 DEF TypeOK
<1>6. ASSUME NEW c \in Callers, AnswerCancel(c) PROVE TypeOK'
  <2>1. TablesOK' /\ ServiceOK' /\ WorkersOK' /\ BoundsOK'
    BY <1>6
       DEF TypeOK, TablesOK, ServiceOK, WorkersOK, BoundsOK, AnswerCancel, db, worker
  <2>2. RequestsOK'
    BY <1>6 DEF TypeOK, RequestsOK, AnswerCancel, CallerStep, CallerDone
  <2> QED
    BY <2>1, <2>2 DEF TypeOK
<1>7. ASSUME ClearTerminalJobs PROVE TypeOK'
  <2>1. ServiceOK' /\ WorkersOK' /\ RequestsOK' /\ BoundsOK'
    BY <1>7
       DEF TypeOK, ServiceOK, WorkersOK, RequestsOK, BoundsOK, ClearTerminalJobs, worker,
       callers
  <2>2. TablesOK'
    BY <1>7, RowOps DEF TypeOK, TablesOK, ClearTerminalJobs
  <2> QED
    BY <2>1, <2>2 DEF TypeOK
<1>8. ASSUME RecoverInterruptedJobs PROVE TypeOK'
  <2>1. WorkersOK' /\ RequestsOK'
    BY <1>8 DEF TypeOK, WorkersOK, RequestsOK, RecoverInterruptedJobs, worker, callers
  <2>2. TablesOK'
    BY <1>8, RowOps DEF TypeOK, TablesOK, RecoverInterruptedJobs
  <2>3. ServiceOK'
    BY <1>8 DEF TypeOK, ServiceOK, RecoverInterruptedJobs
  <2>4. BoundsOK'
    BY <1>8, FaultBound DEF TypeOK, RecoverInterruptedJobs
  <2> QED
    BY <2>1, <2>2, <2>3, <2>4 DEF TypeOK
<1>9. ASSUME NEW w \in Workers, ClaimNextJob(w) PROVE TypeOK'
  <2>1. ServiceOK' /\ RequestsOK' /\ BoundsOK'
    BY <1>9 DEF TypeOK, ServiceOK, RequestsOK, BoundsOK, ClaimNextJob, callers
  <2>2. TablesOK'
    BY <1>9, RowOps
       DEF TypeOK, TablesOK, ClaimNextJob, WorkerStep, NextQueued, OwnedTypes
  <2>3. WorkersOK'
    BY <1>9 DEF TypeOK, WorkersOK, ClaimNextJob, WorkerStep, NextQueued, Idle, Owning
  <2> QED
    BY <2>1, <2>2, <2>3 DEF TypeOK
<1>10. ASSUME NEW w \in Workers, NoJob(w) PROVE TypeOK'
  <2>1. TablesOK' /\ ServiceOK' /\ RequestsOK' /\ BoundsOK'
    BY <1>10 DEF TypeOK, TablesOK, ServiceOK, RequestsOK, BoundsOK, NoJob, db, callers
  <2>2. WorkersOK'
    BY <1>10 DEF TypeOK, WorkersOK, NoJob, WorkerStep, Idle
  <2> QED
    BY <2>1, <2>2 DEF TypeOK
<1>11. ASSUME NEW w \in Workers, Wake(w) PROVE TypeOK'
  <2>1. TablesOK' /\ RequestsOK' /\ BoundsOK'
    BY <1>11 DEF TypeOK, TablesOK, RequestsOK, BoundsOK, Wake, db, callers
  <2>2. ServiceOK'
    BY <1>11 DEF TypeOK, ServiceOK, Wake, WorkerStep, OwnedTypes
  <2>3. WorkersOK'
    BY <1>11 DEF TypeOK, WorkersOK, Wake, WorkerStep, Idle
  <2> QED
    BY <2>1, <2>2, <2>3 DEF TypeOK
<1>12. ASSUME NEW w \in Workers, Tick(w) PROVE TypeOK'
  <2>1. TablesOK' /\ ServiceOK' /\ RequestsOK' /\ BoundsOK'
    BY <1>12 DEF TypeOK, TablesOK, ServiceOK, RequestsOK, BoundsOK, Tick, db, callers
  <2>2. WorkersOK'
    BY <1>12 DEF TypeOK, WorkersOK, Tick, WorkerStep, Idle
  <2> QED
    BY <2>1, <2>2 DEF TypeOK
<1>13. ASSUME NEW w \in Workers, ReadClaimed(w) PROVE TypeOK'
  <2>1. TablesOK' /\ ServiceOK' /\ RequestsOK'
    BY <1>13 DEF TypeOK, TablesOK, ServiceOK, RequestsOK, ReadClaimed, db, callers
  <2>2. WorkersOK'
    BY <1>13 DEF TypeOK, WorkersOK, ReadClaimed, WorkerStep, Idle, Owning
  <2>3. BoundsOK'
    BY <1>13, FaultBound DEF TypeOK, ReadClaimed, Stopped
  <2> QED
    BY <2>1, <2>2, <2>3 DEF TypeOK
<1>14. ASSUME NEW w \in Workers, FailUnknown(w) PROVE TypeOK'
  <2>1. ServiceOK' /\ RequestsOK'
    BY <1>14 DEF TypeOK, ServiceOK, RequestsOK, FailUnknown, callers
  <2>2. wjob[w] \in Jobs /\ Failed(job[wjob[w]], "handler_not_registered") \in Row
    BY <1>14, RowOps
       DEF TypeOK, TablesOK, OwnedTypes, Owning, FailUnknown, WorkerStep, Errors
  <2>3. TablesOK'
    BY <1>14, <2>2
       DEF TypeOK, TablesOK, FailUnknown, WorkerStep, Store, Stored, OwnedTypes
  <2>4. WorkersOK'
    BY <1>14 DEF TypeOK, WorkersOK, FailUnknown, WorkerStep, Idle, Owning
  <2>5. BoundsOK'
    BY <1>14, FaultBound DEF TypeOK, FailUnknown, Stopped, Store, Stored
  <2> QED
    BY <2>1, <2>2, <2>3, <2>4, <2>5 DEF TypeOK
<1>15. ASSUME NEW w \in Workers, EmitRefused(w) PROVE TypeOK'
  <2>1. ServiceOK' /\ RequestsOK'
    BY <1>15 DEF TypeOK, ServiceOK, RequestsOK, EmitRefused, callers
  <2>2. TablesOK'
    BY <1>15
       DEF TypeOK, TablesOK, EmitRefused, WorkerStep, Emit, Logged, OwnedTypes, EventTypes
  <2>3. WorkersOK'
    BY <1>15 DEF TypeOK, WorkersOK, EmitRefused, WorkerStep, Idle
  <2>4. BoundsOK'
    BY <1>15, FaultBound DEF TypeOK, EmitRefused, Stopped, Emit
  <2> QED
    BY <2>1, <2>2, <2>3, <2>4 DEF TypeOK
<1>16. ASSUME NEW w \in Workers, Activate(w) PROVE TypeOK'
  <2>1. TablesOK' /\ RequestsOK' /\ BoundsOK'
    BY <1>16 DEF TypeOK, TablesOK, RequestsOK, BoundsOK, Activate, db, callers
  <2>2. ServiceOK'
    BY <1>16 DEF TypeOK, ServiceOK, Activate, WorkerStep, OwnedTypes
  <2>3. WorkersOK'
    BY <1>16 DEF TypeOK, WorkersOK, Activate, WorkerStep, Idle, Owning
  <2> QED
    BY <2>1, <2>2, <2>3 DEF TypeOK
<1>17. ASSUME NEW w \in Workers, EnterHandler(w) PROVE TypeOK'
  <2>1. ServiceOK' /\ RequestsOK' /\ BoundsOK'
    BY <1>17 DEF TypeOK, ServiceOK, RequestsOK, BoundsOK, EnterHandler, callers
  <2>2. wjob[w] \in Jobs /\ starts[wjob[w]] + 1 \in Nat
    BY <1>17 DEF TypeOK, TablesOK, OwnedTypes, Owning, EnterHandler, WorkerStep
  <2>3. TablesOK'
    BY <1>17, <2>2 DEF TypeOK, TablesOK, EnterHandler
  <2>4. WorkersOK'
    BY <1>17 DEF TypeOK, WorkersOK, EnterHandler, WorkerStep, Idle, Owning
  <2> QED
    BY <2>1, <2>2, <2>3, <2>4 DEF TypeOK
<1>18. ASSUME NEW w \in Workers, NEW p \in Reports, Progress(w, p) PROVE TypeOK'
  <2>1. ServiceOK' /\ WorkersOK' /\ RequestsOK' /\ BoundsOK'
    BY <1>18
       DEF TypeOK, ServiceOK, WorkersOK, RequestsOK, BoundsOK, Progress, worker, callers
  <2>2. TablesOK'
    BY <1>18, RowOps DEF TypeOK, TablesOK, Progress, OwnedTypes
  <2> QED
    BY <2>1, <2>2 DEF TypeOK
<1>19. ASSUME NEW w \in Workers, ReturnFromHandler(w) PROVE TypeOK'
  <2>1. TablesOK' /\ ServiceOK' /\ RequestsOK' /\ BoundsOK'
    BY <1>19
       DEF TypeOK, TablesOK, ServiceOK, RequestsOK, BoundsOK, ReturnFromHandler, db,
       callers
  <2>2. WorkersOK'
    BY <1>19 DEF TypeOK, WorkersOK, ReturnFromHandler, WorkerStep, Idle, Owning
  <2> QED
    BY <2>1, <2>2 DEF TypeOK
<1>20. ASSUME NEW w \in Workers, Deactivate(w) PROVE TypeOK'
  <2>1. TablesOK' /\ RequestsOK' /\ BoundsOK'
    BY <1>20 DEF TypeOK, TablesOK, RequestsOK, BoundsOK, Deactivate, db, callers
  <2>2. ServiceOK'
    BY <1>20 DEF TypeOK, ServiceOK, Deactivate, WorkerStep, OwnedTypes
  <2>3. WorkersOK'
    BY <1>20 DEF TypeOK, WorkersOK, Deactivate, WorkerStep, Idle, Owning
  <2> QED
    BY <2>1, <2>2, <2>3 DEF TypeOK
<1>21. ASSUME NEW w \in Workers, ReadCurrent(w) PROVE TypeOK'
  <2>1. TablesOK' /\ ServiceOK' /\ RequestsOK'
    BY <1>21 DEF TypeOK, TablesOK, ServiceOK, RequestsOK, ReadCurrent, db, callers
  <2>2. WorkersOK'
    BY <1>21 DEF TypeOK, WorkersOK, ReadCurrent, WorkerStep, Idle, Owning
  <2>3. BoundsOK'
    BY <1>21, FaultBound DEF TypeOK, ReadCurrent
  <2> QED
    BY <2>1, <2>2, <2>3 DEF TypeOK
<1>22. ASSUME NEW w \in Workers, MarkJobCancelled(w) PROVE TypeOK'
  <2>1. ServiceOK' /\ RequestsOK'
    BY <1>22 DEF TypeOK, ServiceOK, RequestsOK, MarkJobCancelled, callers
  <2>2. wjob[w] \in Jobs /\ MarkedCancelled(job[wjob[w]]) \in Row
    BY <1>22, RowOps
       DEF TypeOK, TablesOK, OwnedTypes, Owning, MarkJobCancelled, WorkerStep
  <2>3. TablesOK'
    BY <1>22, <2>2
       DEF TypeOK, TablesOK, MarkJobCancelled, WorkerStep, Store, Stored, OwnedTypes
  <2>4. WorkersOK'
    BY <1>22 DEF TypeOK, WorkersOK, MarkJobCancelled, WorkerStep, Idle, Owning
  <2>5. BoundsOK'
    BY <1>22, FaultBound DEF TypeOK, MarkJobCancelled, Store, Stored
  <2> QED
    BY <2>1, <2>2, <2>3, <2>4, <2>5 DEF TypeOK
<1>23. ASSUME NEW w \in Workers, RecordOutcome(w) PROVE TypeOK'
  <2>1. ServiceOK' /\ RequestsOK'
    BY <1>23 DEF TypeOK, ServiceOK, RequestsOK, RecordOutcome, callers
  <2>2. TablesOK'
    <3> DEFINE r == CASE outcome[w] = "ok"       -> Completed(job[wjob[w]])
                      [] outcome[w] = "error"    -> Failed(job[wjob[w]], "job_failed")
                      [] outcome[w] = "canceled" -> Failed(job[wjob[w]], "cancelled")
    <3>1. wjob[w] \in Jobs /\ outcome[w] \in {"ok", "error", "canceled"}
      BY <1>23 DEF RecordOutcome, WorkerStep, OwnedTypes, Owning, Outcomes
    <3>2. r \in Row
      BY <3>1, RowOps DEF TypeOK, TablesOK, Errors
    <3>3. job' = [job EXCEPT ![wjob[w]] = r] \/ UNCHANGED job
      BY <1>23 DEF RecordOutcome, Store, Stored
    <3>4. UNCHANGED <<log, starts>>
      BY <1>23 DEF RecordOutcome
    <3> HIDE DEF r
    <3> QED
      BY <3>2, <3>3, <3>4 DEF TypeOK, TablesOK
  <2>3. WorkersOK'
    BY <1>23 DEF TypeOK, WorkersOK, RecordOutcome, WorkerStep, Idle, Owning
  <2>4. BoundsOK'
    BY <1>23, FaultBound DEF TypeOK, RecordOutcome, Store, Stored
  <2> QED
    BY <2>1, <2>2, <2>3, <2>4 DEF TypeOK
<1>24. ASSUME NEW w \in Workers, EmitOutcome(w) PROVE TypeOK'
  <2>1. ServiceOK' /\ RequestsOK'
    BY <1>24 DEF TypeOK, ServiceOK, RequestsOK, EmitOutcome, callers
  <2>2. TablesOK'
    BY <1>24
       DEF TypeOK, TablesOK, EmitOutcome, WorkerStep, Emit, Logged, OwnedTypes, EventTypes
  <2>3. WorkersOK'
    BY <1>24 DEF TypeOK, WorkersOK, EmitOutcome, WorkerStep, Idle
  <2>4. BoundsOK'
    BY <1>24, FaultBound DEF TypeOK, EmitOutcome, Emit
  <2> QED
    BY <2>1, <2>2, <2>3, <2>4 DEF TypeOK
<1>25. ASSUME Stop PROVE TypeOK'
  <2>1. TablesOK' /\ RequestsOK' /\ BoundsOK'
    BY <1>25 DEF TypeOK, TablesOK, RequestsOK, BoundsOK, Stop, db, callers
  <2>2. ServiceOK'
    BY <1>25 DEF TypeOK, ServiceOK, Stop
  <2>3. WorkersOK'
    BY <1>25 DEF TypeOK, WorkersOK, Stop, Idle
  <2> QED
    BY <2>1, <2>2, <2>3 DEF TypeOK
<1>26. ASSUME Exit PROVE TypeOK'
  <2>1. TablesOK'
    BY <1>26 DEF TypeOK, TablesOK, Exit, NewProcess, db
  <2>2. ServiceOK'
    BY <1>26 DEF TypeOK, ServiceOK, Exit, NewProcess
  <2>3. WorkersOK'
    BY <1>26 DEF TypeOK, WorkersOK, Exit, NewProcess, Idle
  <2>4. RequestsOK'
    BY <1>26 DEF TypeOK, RequestsOK, Exit, NewProcess
  <2>5. BoundsOK'
    BY <1>26 DEF TypeOK, BoundsOK, Exit, NewProcess
  <2> QED
    BY <2>1, <2>2, <2>3, <2>4, <2>5 DEF TypeOK
<1>27. ASSUME Crash PROVE TypeOK'
  <2>1. TablesOK'
    BY <1>27 DEF TypeOK, TablesOK, Crash, NewProcess, db
  <2>2. ServiceOK'
    BY <1>27 DEF TypeOK, ServiceOK, Crash, NewProcess
  <2>3. WorkersOK'
    BY <1>27 DEF TypeOK, WorkersOK, Crash, NewProcess, Idle
  <2>4. RequestsOK'
    BY <1>27 DEF TypeOK, RequestsOK, Crash, NewProcess
  <2>5. BoundsOK'
    BY <1>27 DEF TypeOK, BoundsOK, Crash, NewProcess
  <2> QED
    BY <2>1, <2>2, <2>3, <2>4, <2>5 DEF TypeOK
<1>28. ASSUME UNCHANGED vars PROVE TypeOK'
  BY <1>28
     DEF TypeOK, TablesOK, ServiceOK, WorkersOK, RequestsOK, BoundsOK, vars, db, worker,
     callers
<1> QED
  BY <1>1, <1>2, <1>3, <1>4, <1>5, <1>6, <1>7, <1>8, <1>9, <1>10, <1>11, <1>12, <1>13,
     <1>14, <1>15, <1>16, <1>17, <1>18, <1>19, <1>20, <1>21, <1>22, <1>23, <1>24, <1>25,
     <1>26, <1>27, <1>28
     DEF Next, SubmitNext, CallerNext, Looking, Settling, Handling

-----------------------------------------------------------------------------
(* What the statements make of a consistent row.                           *)
LEMMA RowWrites ==
  /\ Consistent(NoRow) /\ NoRow.status = "none"
  /\ Consistent([NoRow EXCEPT !.status = "deleted"])
  /\ \A k \in CreatedKeys : Consistent(Queued(k)) /\ Queued(k).status = "queued"
  /\ \A r \in Row : Consistent(r) =>
       /\ r.status = "queued" => Consistent(Claimed(r)) /\ Claimed(r).status = "running"
       /\ r.status \in Live => Consistent(Completed(r)) /\ Completed(r).status = "succeeded"
       /\ r.status = "cancel_requested" =>
            Consistent(MarkedCancelled(r)) /\ MarkedCancelled(r).status = "cancelled"
       /\ Consistent(CancelRequested(r))
  /\ \A r \in Row, code \in Errors : Consistent(r) /\ code # "none" /\ r.status \in Live =>
       Consistent(Failed(r, code)) /\ Failed(r, code).status = "failed"
  /\ \A r \in Row, j \in Jobs : Consistent(r) => Consistent(Recovered(j, r))
  /\ \A r \in Row, p \in Reports : Consistent(r) /\ r.status \in Live =>
       Consistent([r EXCEPT !.progress = p]) /\ [r EXCEPT !.progress = p].status = r.status
<1> USE DEF Terminal, Live
<1>1. /\ Consistent(NoRow) /\ NoRow.status = "none"
      /\ Consistent([NoRow EXCEPT !.status = "deleted"])
      /\ \A k \in CreatedKeys : Consistent(Queued(k)) /\ Queued(k).status = "queued"
  BY DEF Consistent, NoRow, Queued
<1>2. ASSUME NEW r \in Row, Consistent(r), r.status = "queued"
      PROVE  Consistent(Claimed(r)) /\ Claimed(r).status = "running"
  BY <1>2 DEF Consistent, Claimed, Row
<1>3. ASSUME NEW r \in Row, Consistent(r), r.status \in Live
      PROVE  Consistent(Completed(r)) /\ Completed(r).status = "succeeded"
  BY <1>3 DEF Consistent, Completed, Row
<1>4. ASSUME NEW r \in Row, Consistent(r), r.status = "cancel_requested"
      PROVE  Consistent(MarkedCancelled(r)) /\ MarkedCancelled(r).status = "cancelled"
  BY <1>4 DEF Consistent, MarkedCancelled, Row
<1>5. ASSUME NEW r \in Row, Consistent(r)
      PROVE  Consistent(CancelRequested(r))
  BY <1>5 DEF Consistent, CancelRequested, Row
<1>6. ASSUME NEW r \in Row, NEW code \in Errors, Consistent(r), code # "none", r.status \in Live
      PROVE  Consistent(Failed(r, code)) /\ Failed(r, code).status = "failed"
  BY <1>6 DEF Consistent, Failed, Row
<1>7. ASSUME NEW r \in Row, NEW j \in Jobs, Consistent(r)
      PROVE  Consistent(Recovered(j, r))
  BY <1>7 DEF Consistent, Recovered, Row
<1>8. ASSUME NEW r \in Row, NEW p \in Reports, Consistent(r), r.status \in Live
      PROVE  Consistent([r EXCEPT !.progress = p]) /\ [r EXCEPT !.progress = p].status = r.status
  BY <1>8 DEF Consistent, Row
<1> QED
  BY <1>1, <1>2, <1>3, <1>4, <1>5, <1>6, <1>7, <1>8

(* How the other ones move its status.                                     *)
LEMMA StatusMoves ==
  ASSUME NEW r \in Row
  PROVE  /\ r.status = "queued" => CancelRequested(r).status = "cancelled"
         /\ r.status = "running" => CancelRequested(r).status = "cancel_requested"
         /\ r.status \notin {"queued", "running"} => CancelRequested(r) = r
         /\ \A j \in Jobs :
              /\ r.status \notin Live => Recovered(j, r) = r
              /\ r.status = "cancel_requested" => Recovered(j, r).status = "cancelled"
              /\ r.status = "running" /\ j \in InstallJobs => Recovered(j, r).status = "queued"
              /\ r.status = "running" /\ j \notin InstallJobs => Recovered(j, r).status = "failed"
  BY DEF CancelRequested, Recovered, Row, Live

-----------------------------------------------------------------------------
(* The write of a worker that gives its job up: FailUnknown,               *)
(* MarkJobCancelled and RecordOutcome differ only in the row they leave.   *)
LEMMA FinishStep ==
  ASSUME IInv, TypeOK', NEW w \in Workers, NEW q, NEW r \in Row,
         pc[w] \in {"unknown", "cancelling", "recording"},
         q \in {"refusing", "announcing"}, q = "announcing" => pc[w] # "unknown",
         pc' = [pc EXCEPT ![w] = q],
         Consistent(r), r.status \in Terminal,
         job' = [job EXCEPT ![wjob[w]] = r] \/ UNCHANGED job,
         UNCHANGED <<starts, engine, active, wjob, submit>>
  PROVE  RowsAgree' /\ Owners' /\ OwnedRows' /\ StartsCounted'
<1>1. /\ wjob[w] \in Jobs
      /\ job[wjob[w]].status \in Live
      /\ \A v \in Workers : v # w /\ wjob[v] # None => wjob[v] # wjob[w]
  BY EngineAssumption DEF IInv, TypeOK, WorkersOK, Owners, OwnedRows, Owning, Finishing
<1>2. RowsAgree'
  BY <1>1 DEF IInv, TypeOK, TablesOK, RowsAgree
<1>3. Owners'
  BY <1>1 DEF IInv, TypeOK, WorkersOK, Owners, Owning
<1>4. \A j \in Jobs : \/ job'[j] = job[j]
                      \/ j = wjob[w] /\ job'[j].status \in Terminal
  BY <1>1 DEF IInv, TypeOK, TablesOK
<1>5. \A v \in Workers : v # w /\ wjob[v] # None =>
        wjob[v] \in Jobs /\ pc'[v] = pc[v] /\ job'[wjob[v]] = job[wjob[v]]
  BY <1>1, <1>4 DEF IInv, TypeOK, WorkersOK
<1>6. \A v \in Workers : pc[v] \in Owning => wjob[v] # None
  BY DEF IInv, Owners
<1>7. pc'[w] = q /\ q \notin Finishing /\ q # "cancelling"
  BY DEF IInv, TypeOK, WorkersOK, Finishing
<1>8. \A v \in Workers : v # w => pc'[v] = pc[v]
  BY DEF IInv, TypeOK, WorkersOK
<1>9. OwnedRows'
  <2>1. ASSUME NEW v \in Workers, wjob[v] # None
        PROVE  job'[wjob[v]].status \notin {"none", "queued"}
    BY <1>1, <1>4, <1>5, <2>1 DEF IInv, OwnedRows, Terminal
  <2>2. ASSUME NEW v \in Workers, pc'[v] \in Finishing
        PROVE  job'[wjob[v]].status \in Live
    BY <1>5, <1>6, <1>7, <1>8, <2>2 DEF IInv, OwnedRows, Finishing, Owning
  <2>3. ASSUME NEW v \in Workers, pc'[v] = "cancelling"
        PROVE  job'[wjob[v]].status = "cancel_requested"
    BY <1>5, <1>6, <1>7, <1>8, <2>3 DEF IInv, OwnedRows, Owning
  <2>4. ASSUME NEW j \in Jobs, submit[j] = "new"
        PROVE  job'[j].status = "none"
    BY <1>1, <1>4, <2>4 DEF IInv, OwnedRows, Live
  <2> QED
    BY <2>1, <2>2, <2>3, <2>4 DEF OwnedRows
<1>10. StartsCounted'
  <2>1. ASSUME NEW v \in Workers, pc'[v] \in Entered
        PROVE  starts[wjob[v]] > 0
    BY <1>7, <1>8, <2>1 DEF IInv, StartsCounted, Entered
  <2>2. ASSUME NEW v \in Workers, pc'[v] \in {"claimed", "known", "starting"}, wjob[v] \notin InstallJobs
        PROVE  starts[wjob[v]] = 0
    BY <1>7, <1>8, <2>2 DEF IInv, StartsCounted
  <2>3. ASSUME NEW j \in Jobs \ InstallJobs, job'[j].status \in {"none", "queued"}
        PROVE  starts[j] = 0
    BY <1>4, <2>3 DEF IInv, StartsCounted, Terminal
  <2> QED
    BY <2>1, <2>2, <2>3 DEF IInv, StartsCounted
<1> QED
  BY <1>2, <1>3, <1>9, <1>10

(* Every step keeps the inductive invariant.                               *)
LEMMA InvStep ==
  ASSUME IInv, TypeOK', [Next]_vars
  PROVE  IInv'
<1> USE EngineAssumption
<1>0. TypeOK
  BY DEF IInv
<1>1. ASSUME NEW j \in Jobs, CreateJob(j) PROVE IInv'
  <2>1. Owners' /\ Outcomes'
    BY <1>1 DEF IInv, Owners, Outcomes, CreateJob, worker
  <2>2. RowsAgree'
    BY <1>0, <1>1, RowWrites DEF IInv, RowsAgree, CreateJob, TypeOK, TablesOK
  <2>3. OwnedRows'
    <3>1. PICK k \in CreatedKeys : job' = [job EXCEPT ![j] = Queued(k)]
      BY <1>1, Zenon DEF CreateJob
    <3>2. \A i \in Jobs : i # j => job'[i] = job[i]
      BY <1>0, <3>1 DEF TypeOK, TablesOK
    <3>3. job[j].status = "none" /\ submit'[j] = "created"
      BY <1>0, <1>1 DEF CreateJob, SubmitStep, IInv, OwnedRows, TypeOK, RequestsOK
    <3>4. \A v \in Workers : wjob[v] # None => wjob[v] \in Jobs /\ wjob[v] # j
      BY <1>0, <3>3 DEF IInv, OwnedRows, TypeOK, WorkersOK
    <3>5. \A i \in Jobs : i # j => submit'[i] = submit[i]
      BY <1>0, <1>1 DEF CreateJob, SubmitStep, TypeOK, RequestsOK
    <3>6. \A v \in Workers : pc[v] \in Finishing => wjob[v] # None
      BY DEF IInv, Owners, Finishing, Owning
    <3>7. UNCHANGED <<pc, wjob>>
      BY <1>1 DEF CreateJob, worker
    <3> QED
      BY <3>2, <3>3, <3>4, <3>5, <3>6, <3>7 DEF IInv, OwnedRows, Finishing
  <2>4. StartsCounted'
    BY <1>0, <1>1
       DEF IInv, StartsCounted, CreateJob, SubmitStep, TypeOK, TablesOK, WorkersOK, Owners,
       OwnedRows, worker
  <2> QED
    BY <2>1, <2>2, <2>3, <2>4 DEF IInv
<1>2. ASSUME NEW j \in Jobs, Signal(j) PROVE IInv'
  <2>1. RowsAgree' /\ Owners' /\ StartsCounted' /\ Outcomes'
    BY <1>2 DEF IInv, RowsAgree, Owners, StartsCounted, Outcomes, Signal, db, worker
  <2>2. OwnedRows'
    BY <1>0, <1>2
       DEF IInv, OwnedRows, Signal, SubmitStep, TypeOK, TablesOK, WorkersOK, Owners, db,
       worker
  <2> QED
    BY <2>1, <2>2 DEF IInv
<1>3. ASSUME NEW c \in Callers, NEW j \in Jobs, RequestJobCancel(c, j) PROVE IInv'
  <2>1. Owners' /\ Outcomes'
    BY <1>3 DEF IInv, Owners, Outcomes, RequestJobCancel, worker
  <2>2. RowsAgree'
    BY <1>0, <1>3, RowWrites DEF IInv, RowsAgree, RequestJobCancel, TypeOK, TablesOK
  <2>3. OwnedRows'
    BY <1>0, <1>3, StatusMoves
       DEF IInv, OwnedRows, RequestJobCancel, TypeOK, TablesOK, WorkersOK, Owners, worker
  <2>4. StartsCounted'
    BY <1>0, <1>3, StatusMoves
       DEF IInv, StartsCounted, RequestJobCancel, TypeOK, TablesOK, WorkersOK, Owners,
       OwnedRows, worker
  <2> QED
    BY <2>1, <2>2, <2>3, <2>4 DEF IInv
<1>4. ASSUME NEW c \in Callers, ReadCancelled(c) PROVE IInv'
  <2>1. RowsAgree' /\ Owners' /\ OwnedRows' /\ StartsCounted' /\ Outcomes'
    BY <1>4
       DEF IInv, RowsAgree, Owners, OwnedRows, StartsCounted, Outcomes, ReadCancelled,
       db, worker
  <2> QED
    BY <2>1 DEF IInv
<1>5. ASSUME NEW c \in Callers, CancelHandler(c) PROVE IInv'
  <2>1. RowsAgree' /\ Owners' /\ OwnedRows' /\ StartsCounted' /\ Outcomes'
    BY <1>5
       DEF IInv, RowsAgree, Owners, OwnedRows, StartsCounted, Outcomes, CancelHandler,
       db
  <2> QED
    BY <2>1 DEF IInv
<1>6. ASSUME NEW c \in Callers, AnswerCancel(c) PROVE IInv'
  <2>1. RowsAgree' /\ Owners' /\ OwnedRows' /\ StartsCounted' /\ Outcomes'
    BY <1>6
       DEF IInv, RowsAgree, Owners, OwnedRows, StartsCounted, Outcomes, AnswerCancel,
       db, worker
  <2> QED
    BY <2>1 DEF IInv
<1>7. ASSUME ClearTerminalJobs PROVE IInv'
  <2>1. Owners' /\ Outcomes'
    BY <1>7 DEF IInv, Owners, Outcomes, ClearTerminalJobs, worker
  <2>2. RowsAgree'
    BY <1>0, <1>7, RowWrites
       DEF IInv, RowsAgree, ClearTerminalJobs, TypeOK, TablesOK
  <2>3. OwnedRows'
    BY <1>0, <1>7
       DEF IInv, OwnedRows, ClearTerminalJobs, TypeOK, TablesOK, WorkersOK, Owning, Owners,
       Finishing, Live, Terminal, worker
  <2>4. StartsCounted'
    BY <1>0, <1>7
       DEF IInv, StartsCounted, ClearTerminalJobs, TypeOK, TablesOK, WorkersOK, Owners,
       OwnedRows, worker
  <2> QED
    BY <2>1, <2>2, <2>3, <2>4 DEF IInv
<1>8. ASSUME RecoverInterruptedJobs PROVE IInv'
  <2>6. /\ \A v \in Workers : wjob[v] = None /\ pc[v] \notin Owning
        /\ UNCHANGED <<pc, wjob, submit, starts>>
    BY <1>8 DEF IInv, Owners, RecoverInterruptedJobs, worker
  <2>7. \A j \in Jobs : \/ job'[j] = job[j]
                         \/ /\ job[j].status \in Live
                            /\ job'[j].status = "queued" => j \in InstallJobs
                            /\ job'[j].status # "none"
    <3>1. CASE UNCHANGED job
      BY <3>1
    <3>2. CASE job' = [j \in Jobs |-> Recovered(j, job[j])]
      <4> SUFFICES ASSUME NEW j \in Jobs
                   PROVE  \/ Recovered(j, job[j]) = job[j]
                          \/ /\ job[j].status \in Live
                             /\ Recovered(j, job[j]).status = "queued" => j \in InstallJobs
                             /\ Recovered(j, job[j]).status # "none"
        BY <3>2
      <4>1. job[j] \in Row
        BY <1>0 DEF TypeOK, TablesOK
      <4> QED
        BY <4>1, StatusMoves DEF Live
    <3> QED
      BY <1>8, <3>1, <3>2 DEF RecoverInterruptedJobs
  <2>1. Outcomes'
    BY <1>8 DEF IInv, Outcomes, RecoverInterruptedJobs, worker
  <2>2. RowsAgree'
    BY <1>0, <1>8, RowWrites
       DEF IInv, RowsAgree, RecoverInterruptedJobs, TypeOK, TablesOK
  <2>3. Owners'
    BY <1>0, <1>8
       DEF IInv, Owners, RecoverInterruptedJobs, TypeOK, TablesOK, WorkersOK, worker
  <2>4. OwnedRows'
    BY <2>6, <2>7 DEF IInv, OwnedRows, Owning, Finishing, Live
  <2>5. StartsCounted'
    BY <2>6, <2>7 DEF IInv, StartsCounted
  <2> QED
    BY <2>1, <2>2, <2>3, <2>4, <2>5 DEF IInv
<1>9. ASSUME NEW w \in Workers, ClaimNextJob(w) PROVE IInv'
  <2>1. PICK j \in Jobs : /\ NextQueued(j)
                          /\ job' = [job EXCEPT ![j] = Claimed(job[j])]
                          /\ wjob' = [wjob EXCEPT ![w] = j]
    BY <1>9, Zenon DEF ClaimNextJob
  <2> job[j].status = "queued"
    BY <2>1 DEF NextQueued
  <2>2. /\ pc[w] = "looking" /\ pc' = [pc EXCEPT ![w] = "claimed"]
        /\ engine = "running"
        /\ UNCHANGED <<starts, engine, active, outcome, submit>>
    BY <1>9 DEF ClaimNextJob, WorkerStep
  <2>3. /\ Claimed(job[j]) \in Row /\ Consistent(Claimed(job[j]))
        /\ Claimed(job[j]).status = "running"
    BY <1>0, <2>1, RowWrites DEF IInv, RowsAgree, TypeOK, TablesOK
  <2>4. \A i \in Jobs : job'[i] = IF i = j THEN Claimed(job[j]) ELSE job[i]
    BY <1>0, <2>1 DEF TypeOK, TablesOK
  <2>5. \A v \in Workers : /\ wjob'[v] = IF v = w THEN j ELSE wjob[v]
                           /\ pc'[v] = IF v = w THEN "claimed" ELSE pc[v]
    BY <1>0, <2>1, <2>2 DEF TypeOK, WorkersOK
  <2>6. wjob[w] = None /\ j # None
    BY <2>2, EngineAssumption DEF IInv, Owners, Owning
  <2>7. \A v \in Workers : wjob[v] # None => wjob[v] \in Jobs /\ wjob[v] # j
    BY <1>0, <2>1 DEF IInv, OwnedRows, TypeOK, WorkersOK
  <2>8. RowsAgree'
    BY <2>3, <2>4 DEF IInv, RowsAgree
  <2>9. Owners'
    <3>1. \A i \in Jobs : active[i] # None => active[i] \in Workers /\ active[i] # w
      BY <1>0, <2>2 DEF IInv, Owners, TypeOK, ServiceOK
    <3>2. \A v \in Workers : pc'[v] \in Owning <=> wjob'[v] # None
      BY <2>5, <2>6 DEF IInv, Owners, Owning
    <3>3. \A u, v \in Workers : u # v /\ wjob'[u] # None => wjob'[u] # wjob'[v]
      BY <2>5, <2>6, <2>7 DEF IInv, Owners
    <3> QED
      BY <2>2, <2>5, <3>1, <3>2, <3>3 DEF IInv, Owners
  <2>10. OwnedRows'
    <3>1. \A v \in Workers : pc[v] \in Finishing => wjob[v] # None
      BY DEF IInv, Owners, Finishing, Owning
    <3>2. submit[j] # "new"
      BY <2>1 DEF IInv, OwnedRows
    <3>3. \A v \in Workers : wjob'[v] # None => job'[wjob'[v]].status \notin {"none", "queued"}
      BY <2>3, <2>4, <2>5, <2>7 DEF IInv, OwnedRows
    <3>4. \A v \in Workers : pc'[v] \in Finishing => job'[wjob'[v]].status \in Live
      BY <2>3, <2>4, <2>5, <2>7, <3>1 DEF IInv, OwnedRows, Live
    <3>5. \A v \in Workers : pc'[v] = "cancelling" => job'[wjob'[v]].status = "cancel_requested"
      BY <2>4, <2>5, <2>7, <3>1 DEF IInv, OwnedRows, Finishing
    <3>6. \A i \in Jobs : submit'[i] = "new" => job'[i].status = "none"
      BY <2>2, <2>4, <3>2 DEF IInv, OwnedRows
    <3> QED
      BY <3>3, <3>4, <3>5, <3>6 DEF OwnedRows
  <2>11. StartsCounted'
    BY <2>1, <2>2, <2>3, <2>4, <2>5 DEF IInv, StartsCounted, Entered
  <2>12. Outcomes'
    BY <2>2, <2>5 DEF IInv, Outcomes
  <2> QED
    BY <2>8, <2>9, <2>10, <2>11, <2>12 DEF IInv
<1>10. ASSUME NEW w \in Workers, NoJob(w) PROVE IInv'
  <2>1. RowsAgree'
    BY <1>10 DEF IInv, RowsAgree, NoJob, db
  <2>2. Owners'
    BY <1>0, <1>10
       DEF IInv, Owners, NoJob, WorkerStep, TypeOK, TablesOK, WorkersOK, Owning
  <2>3. OwnedRows'
    BY <1>0, <1>10
       DEF IInv, OwnedRows, NoJob, WorkerStep, TypeOK, TablesOK, WorkersOK, Owners,
       Finishing, db
  <2>4. StartsCounted'
    BY <1>0, <1>10
       DEF IInv, StartsCounted, NoJob, WorkerStep, TypeOK, TablesOK, WorkersOK, Owners,
       Entered, OwnedRows, db
  <2>5. Outcomes'
    BY <1>0, <1>10 DEF IInv, Outcomes, NoJob, WorkerStep, TypeOK, TablesOK, WorkersOK
  <2> QED
    BY <2>1, <2>2, <2>3, <2>4, <2>5 DEF IInv
<1>11. ASSUME NEW w \in Workers, Wake(w) PROVE IInv'
  <2>1. RowsAgree'
    BY <1>11 DEF IInv, RowsAgree, Wake, db
  <2>2. Owners'
    BY <1>0, <1>11
       DEF IInv, Owners, Wake, WorkerStep, TypeOK, TablesOK, WorkersOK, Owning
  <2>3. OwnedRows'
    BY <1>0, <1>11
       DEF IInv, OwnedRows, Wake, WorkerStep, TypeOK, TablesOK, WorkersOK, Owners,
       Finishing, db
  <2>4. StartsCounted'
    BY <1>0, <1>11
       DEF IInv, StartsCounted, Wake, WorkerStep, TypeOK, TablesOK, WorkersOK, Owners,
       Entered, OwnedRows, db
  <2>5. Outcomes'
    BY <1>0, <1>11 DEF IInv, Outcomes, Wake, WorkerStep, TypeOK, TablesOK, WorkersOK
  <2> QED
    BY <2>1, <2>2, <2>3, <2>4, <2>5 DEF IInv
<1>12. ASSUME NEW w \in Workers, Tick(w) PROVE IInv'
  <2>1. RowsAgree'
    BY <1>12 DEF IInv, RowsAgree, Tick, db
  <2>2. Owners'
    BY <1>0, <1>12
       DEF IInv, Owners, Tick, WorkerStep, TypeOK, TablesOK, WorkersOK, Owning
  <2>3. OwnedRows'
    BY <1>0, <1>12
       DEF IInv, OwnedRows, Tick, WorkerStep, TypeOK, TablesOK, WorkersOK, Owners,
       Finishing, db
  <2>4. StartsCounted'
    BY <1>0, <1>12
       DEF IInv, StartsCounted, Tick, WorkerStep, TypeOK, TablesOK, WorkersOK, Owners,
       Entered, OwnedRows, db
  <2>5. Outcomes'
    BY <1>0, <1>12 DEF IInv, Outcomes, Tick, WorkerStep, TypeOK, TablesOK, WorkersOK
  <2> QED
    BY <2>1, <2>2, <2>3, <2>4, <2>5 DEF IInv
<1>13. ASSUME NEW w \in Workers, ReadClaimed(w) PROVE IInv'
  <2>1. RowsAgree'
    BY <1>13 DEF IInv, RowsAgree, ReadClaimed, db
  <2>2. Owners'
    <3>1. CASE UNCHANGED wjob /\ pc'[w] \in {"known", "unknown"}
      BY <1>0, <1>13, <3>1
         DEF IInv, Owners, ReadClaimed, WorkerStep, TypeOK, WorkersOK, ServiceOK, Owning
    <3>2. CASE wjob' = [wjob EXCEPT ![w] = None] /\ pc'[w] = "waiting"
      BY <1>0, <1>13, <3>2
         DEF IInv, Owners, ReadClaimed, WorkerStep, TypeOK, WorkersOK, ServiceOK, Owning
    <3> QED
      BY <1>0, <1>13, <3>1, <3>2 DEF ReadClaimed, WorkerStep, TypeOK, WorkersOK
  <2>3. OwnedRows'
    BY <1>0, <1>13
       DEF IInv, OwnedRows, ReadClaimed, WorkerStep, TypeOK, TablesOK, WorkersOK, Owners,
       Finishing, db
  <2>4. StartsCounted'
    BY <1>0, <1>13
       DEF IInv, StartsCounted, ReadClaimed, WorkerStep, TypeOK, TablesOK, WorkersOK,
       Owners, Entered, OwnedRows, db
  <2>5. Outcomes'
    BY <1>0, <1>13
       DEF IInv, Outcomes, ReadClaimed, WorkerStep, TypeOK, TablesOK, WorkersOK
  <2> QED
    BY <2>1, <2>2, <2>3, <2>4, <2>5 DEF IInv
<1>14. ASSUME NEW w \in Workers, FailUnknown(w) PROVE IInv'
  <2>1. /\ wjob[w] \in Jobs /\ job[wjob[w]] \in Row
        /\ job[wjob[w]].status \in Live /\ Consistent(job[wjob[w]])
    BY <1>0, <1>14 DEF FailUnknown, WorkerStep, IInv, TypeOK, TablesOK, WorkersOK,
                       Owners, OwnedRows, RowsAgree, Owning, Finishing
  <2> DEFINE r == Failed(job[wjob[w]], "handler_not_registered")
  <2>2. r \in Row /\ Consistent(r) /\ r.status \in Terminal
    BY <2>1, RowOps, RowWrites DEF Errors, Terminal
  <2>3. /\ pc[w] = "unknown" /\ pc' = [pc EXCEPT ![w] = "refusing"]
        /\ job' = [job EXCEPT ![wjob[w]] = r] \/ UNCHANGED job
        /\ UNCHANGED <<starts, engine, active, wjob, submit>>
    BY <1>14 DEF FailUnknown, WorkerStep, Store, Stored
  <2> HIDE DEF r
  <2>4. RowsAgree' /\ Owners' /\ OwnedRows' /\ StartsCounted'
    BY <2>2, <2>3, FinishStep
  <2>5. Outcomes'
    BY <1>0, <1>14 DEF IInv, Outcomes, FailUnknown, WorkerStep, TypeOK, WorkersOK
  <2> QED
    BY <2>4, <2>5 DEF IInv
<1>15. ASSUME NEW w \in Workers, EmitRefused(w) PROVE IInv'
  <2>1. RowsAgree'
    BY <1>15 DEF IInv, RowsAgree, EmitRefused
  <2>2. Owners'
    BY <1>0, <1>15
       DEF IInv, Owners, EmitRefused, WorkerStep, TypeOK, TablesOK, WorkersOK, Owning
  <2>3. OwnedRows'
    BY <1>0, <1>15
       DEF IInv, OwnedRows, EmitRefused, WorkerStep, TypeOK, TablesOK, WorkersOK, Owners,
       Finishing
  <2>4. StartsCounted'
    BY <1>0, <1>15
       DEF IInv, StartsCounted, EmitRefused, WorkerStep, TypeOK, TablesOK, WorkersOK,
       Owners, Entered, OwnedRows
  <2>5. Outcomes'
    BY <1>0, <1>15
       DEF IInv, Outcomes, EmitRefused, WorkerStep, TypeOK, TablesOK, WorkersOK
  <2> QED
    BY <2>1, <2>2, <2>3, <2>4, <2>5 DEF IInv
<1>16. ASSUME NEW w \in Workers, Activate(w) PROVE IInv'
  <2>1. RowsAgree'
    BY <1>16 DEF IInv, RowsAgree, Activate, db
  <2>2. Owners'
    BY <1>0, <1>16
       DEF IInv, Owners, Activate, WorkerStep, TypeOK, TablesOK, WorkersOK, Owning
  <2>3. OwnedRows'
    BY <1>0, <1>16
       DEF IInv, OwnedRows, Activate, WorkerStep, TypeOK, TablesOK, WorkersOK, Owners,
       Finishing, db
  <2>4. StartsCounted'
    BY <1>0, <1>16
       DEF IInv, StartsCounted, Activate, WorkerStep, TypeOK, TablesOK, WorkersOK, Owners,
       Entered, OwnedRows, db
  <2>5. Outcomes'
    BY <1>0, <1>16 DEF IInv, Outcomes, Activate, WorkerStep, TypeOK, TablesOK, WorkersOK
  <2> QED
    BY <2>1, <2>2, <2>3, <2>4, <2>5 DEF IInv
<1>17. ASSUME NEW w \in Workers, EnterHandler(w) PROVE IInv'
  <2>1. RowsAgree'
    BY <1>17 DEF IInv, RowsAgree, EnterHandler
  <2>2. Owners'
    BY <1>0, <1>17
       DEF IInv, Owners, EnterHandler, WorkerStep, TypeOK, TablesOK, WorkersOK, Owning
  <2>3. OwnedRows'
    BY <1>0, <1>17
       DEF IInv, OwnedRows, EnterHandler, WorkerStep, TypeOK, TablesOK, WorkersOK, Owners,
       Finishing
  <2>4. StartsCounted'
    BY <1>0, <1>17
       DEF IInv, StartsCounted, EnterHandler, WorkerStep, TypeOK, TablesOK, WorkersOK,
       Owners, OwnedRows
  <2>5. Outcomes'
    BY <1>0, <1>17
       DEF IInv, Outcomes, EnterHandler, WorkerStep, TypeOK, TablesOK, WorkersOK
  <2> QED
    BY <2>1, <2>2, <2>3, <2>4, <2>5 DEF IInv
<1>18. ASSUME NEW w \in Workers, NEW p \in Reports, Progress(w, p) PROVE IInv'
  <2>1. Owners' /\ Outcomes'
    BY <1>18 DEF IInv, Owners, Outcomes, Progress, worker
  <2>2. RowsAgree'
    BY <1>0, <1>18, RowWrites
       DEF IInv, RowsAgree, Progress, TypeOK, TablesOK, Owners, OwnedRows, WorkersOK
  <2>3. OwnedRows'
    BY <1>0, <1>18
       DEF IInv, OwnedRows, Progress, TypeOK, TablesOK, WorkersOK, Owners, worker
  <2>4. StartsCounted'
    BY <1>0, <1>18
       DEF IInv, StartsCounted, Progress, TypeOK, TablesOK, WorkersOK, Owners, OwnedRows,
       worker
  <2> QED
    BY <2>1, <2>2, <2>3, <2>4 DEF IInv
<1>19. ASSUME NEW w \in Workers, ReturnFromHandler(w) PROVE IInv'
  <2>1. RowsAgree'
    BY <1>19 DEF IInv, RowsAgree, ReturnFromHandler, db
  <2>2. Owners'
    BY <1>0, <1>19
       DEF IInv, Owners, ReturnFromHandler, WorkerStep, TypeOK, TablesOK, WorkersOK, Owning
  <2>3. OwnedRows'
    BY <1>0, <1>19
       DEF IInv, OwnedRows, ReturnFromHandler, WorkerStep, TypeOK, TablesOK, WorkersOK,
       Owners, Finishing, db
  <2>4. StartsCounted'
    BY <1>0, <1>19
       DEF IInv, StartsCounted, ReturnFromHandler, WorkerStep, TypeOK, TablesOK, WorkersOK,
       Owners, Entered, OwnedRows, db
  <2>5. Outcomes'
    BY <1>0, <1>19
       DEF IInv, Outcomes, ReturnFromHandler, WorkerStep, TypeOK, TablesOK, WorkersOK
  <2> QED
    BY <2>1, <2>2, <2>3, <2>4, <2>5 DEF IInv
<1>20. ASSUME NEW w \in Workers, Deactivate(w) PROVE IInv'
  <2>1. RowsAgree'
    BY <1>20 DEF IInv, RowsAgree, Deactivate, db
  <2>2. Owners'
    BY <1>0, <1>20
       DEF IInv, Owners, Deactivate, WorkerStep, TypeOK, TablesOK, WorkersOK, ServiceOK,
       Owning
  <2>3. OwnedRows'
    BY <1>0, <1>20
       DEF IInv, OwnedRows, Deactivate, WorkerStep, TypeOK, TablesOK, WorkersOK, Owners,
       Finishing, db
  <2>4. StartsCounted'
    BY <1>0, <1>20
       DEF IInv, StartsCounted, Deactivate, WorkerStep, TypeOK, TablesOK, WorkersOK,
       Owners, Entered, OwnedRows, db
  <2>5. Outcomes'
    BY <1>0, <1>20
       DEF IInv, Outcomes, Deactivate, WorkerStep, TypeOK, TablesOK, WorkersOK
  <2> QED
    BY <2>1, <2>2, <2>3, <2>4, <2>5 DEF IInv
<1>21. ASSUME NEW w \in Workers, ReadCurrent(w) PROVE IInv'
  <2>1. RowsAgree'
    BY <1>21 DEF IInv, RowsAgree, ReadCurrent, db
  <2>2. Owners'
    BY <1>0, <1>21
       DEF IInv, Owners, ReadCurrent, WorkerStep, TypeOK, TablesOK, WorkersOK, ServiceOK,
       Owning
  <2>3. OwnedRows'
    BY <1>0, <1>21
       DEF IInv, OwnedRows, ReadCurrent, WorkerStep, TypeOK, TablesOK, WorkersOK, Owners,
       Finishing, db
  <2>4. StartsCounted'
    BY <1>0, <1>21
       DEF IInv, StartsCounted, ReadCurrent, WorkerStep, TypeOK, TablesOK, WorkersOK,
       Owners, Entered, OwnedRows, db
  <2>5. Outcomes'
    BY <1>0, <1>21
       DEF IInv, Outcomes, ReadCurrent, WorkerStep, TypeOK, TablesOK, WorkersOK
  <2> QED
    BY <2>1, <2>2, <2>3, <2>4, <2>5 DEF IInv
<1>22. ASSUME NEW w \in Workers, MarkJobCancelled(w) PROVE IInv'
  <2>1. /\ wjob[w] \in Jobs /\ job[wjob[w]] \in Row
        /\ job[wjob[w]].status = "cancel_requested" /\ Consistent(job[wjob[w]])
    BY <1>0, <1>22 DEF MarkJobCancelled, WorkerStep, IInv, TypeOK, TablesOK, WorkersOK,
                       Owners, OwnedRows, RowsAgree, Owning
  <2> DEFINE r == MarkedCancelled(job[wjob[w]])
  <2>2. r \in Row /\ Consistent(r) /\ r.status \in Terminal
    BY <2>1, RowOps, RowWrites DEF Terminal
  <2>3. /\ pc[w] = "cancelling" /\ pc' = [pc EXCEPT ![w] = "announcing"]
        /\ job' = [job EXCEPT ![wjob[w]] = r] \/ UNCHANGED job
        /\ UNCHANGED <<starts, engine, active, wjob, submit>>
    BY <1>22 DEF MarkJobCancelled, WorkerStep, Store, Stored
  <2> HIDE DEF r
  <2>4. RowsAgree' /\ Owners' /\ OwnedRows' /\ StartsCounted'
    BY <2>2, <2>3, FinishStep
  <2>5. Outcomes'
    BY <1>0, <1>22 DEF IInv, Outcomes, MarkJobCancelled, WorkerStep, TypeOK, WorkersOK
  <2> QED
    BY <2>4, <2>5 DEF IInv
<1>23. ASSUME NEW w \in Workers, RecordOutcome(w) PROVE IInv'
  <2>1. /\ wjob[w] \in Jobs /\ job[wjob[w]] \in Row
        /\ job[wjob[w]].status \in Live /\ Consistent(job[wjob[w]])
        /\ outcome[w] \in {"ok", "error", "canceled"}
    BY <1>0, <1>23 DEF RecordOutcome, WorkerStep, IInv, TypeOK, TablesOK, WorkersOK,
                       Owners, OwnedRows, RowsAgree, Owning, Finishing, Outcomes
  <2> DEFINE r == CASE outcome[w] = "ok"       -> Completed(job[wjob[w]])
                    [] outcome[w] = "error"    -> Failed(job[wjob[w]], "job_failed")
                    [] outcome[w] = "canceled" -> Failed(job[wjob[w]], "cancelled")
  <2>2. r \in Row /\ Consistent(r) /\ r.status \in Terminal
    BY <2>1, RowOps, RowWrites DEF Errors, Terminal
  <2>3. /\ pc[w] = "recording" /\ pc' = [pc EXCEPT ![w] = "announcing"]
        /\ job' = [job EXCEPT ![wjob[w]] = r] \/ UNCHANGED job
        /\ UNCHANGED <<starts, engine, active, wjob, submit>>
    BY <1>23 DEF RecordOutcome, WorkerStep, Store, Stored
  <2> HIDE DEF r
  <2>4. RowsAgree' /\ Owners' /\ OwnedRows' /\ StartsCounted'
    BY <2>2, <2>3, FinishStep
  <2>5. Outcomes'
    BY <1>0, <1>23 DEF IInv, Outcomes, RecordOutcome, WorkerStep, TypeOK, WorkersOK
  <2> QED
    BY <2>4, <2>5 DEF IInv
<1>24. ASSUME NEW w \in Workers, EmitOutcome(w) PROVE IInv'
  <2>1. RowsAgree'
    BY <1>24 DEF IInv, RowsAgree, EmitOutcome
  <2>2. Owners'
    BY <1>0, <1>24
       DEF IInv, Owners, EmitOutcome, WorkerStep, TypeOK, TablesOK, WorkersOK, Owning
  <2>3. OwnedRows'
    BY <1>0, <1>24
       DEF IInv, OwnedRows, EmitOutcome, WorkerStep, TypeOK, TablesOK, WorkersOK, Owners,
       Finishing
  <2>4. StartsCounted'
    BY <1>0, <1>24
       DEF IInv, StartsCounted, EmitOutcome, WorkerStep, TypeOK, TablesOK, WorkersOK,
       Owners, Entered, OwnedRows
  <2>5. Outcomes'
    BY <1>0, <1>24
       DEF IInv, Outcomes, EmitOutcome, WorkerStep, TypeOK, TablesOK, WorkersOK
  <2> QED
    BY <2>1, <2>2, <2>3, <2>4, <2>5 DEF IInv
<1>25. ASSUME Stop PROVE IInv'
  <2>1. RowsAgree' /\ OwnedRows' /\ StartsCounted' /\ Outcomes'
    BY <1>25 DEF IInv, RowsAgree, OwnedRows, StartsCounted, Outcomes, Stop, db
  <2>2. Owners'
    BY <1>0, <1>25 DEF IInv, Owners, Stop, TypeOK, TablesOK, WorkersOK
  <2> QED
    BY <2>1, <2>2 DEF IInv
<1>26. ASSUME Exit PROVE IInv'
  <2>1. RowsAgree'
    BY <1>26 DEF IInv, RowsAgree, Exit, NewProcess, db
  <2>2. Owners'
    BY <1>0, <1>26
       DEF IInv, Owners, Exit, NewProcess, TypeOK, TablesOK, WorkersOK, Owning
  <2>3. OwnedRows'
    BY <1>0, <1>26
       DEF IInv, OwnedRows, Exit, NewProcess, TypeOK, TablesOK, WorkersOK, Owners,
       Finishing, db
  <2>4. StartsCounted'
    BY <1>0, <1>26
       DEF IInv, StartsCounted, Exit, NewProcess, TypeOK, TablesOK, WorkersOK, Owners,
       Entered, OwnedRows, db
  <2>5. Outcomes'
    BY <1>0, <1>26 DEF IInv, Outcomes, Exit, NewProcess, TypeOK, TablesOK, WorkersOK
  <2> QED
    BY <2>1, <2>2, <2>3, <2>4, <2>5 DEF IInv
<1>27. ASSUME Crash PROVE IInv'
  <2>1. RowsAgree'
    BY <1>27 DEF IInv, RowsAgree, Crash, NewProcess, db
  <2>2. Owners'
    BY <1>0, <1>27
       DEF IInv, Owners, Crash, NewProcess, TypeOK, TablesOK, WorkersOK, Owning
  <2>3. OwnedRows'
    BY <1>0, <1>27
       DEF IInv, OwnedRows, Crash, NewProcess, TypeOK, TablesOK, WorkersOK, Owners,
       Finishing, db
  <2>4. StartsCounted'
    BY <1>0, <1>27
       DEF IInv, StartsCounted, Crash, NewProcess, TypeOK, TablesOK, WorkersOK, Owners,
       Entered, OwnedRows, db
  <2>5. Outcomes'
    BY <1>0, <1>27 DEF IInv, Outcomes, Crash, NewProcess, TypeOK, TablesOK, WorkersOK
  <2> QED
    BY <2>1, <2>2, <2>3, <2>4, <2>5 DEF IInv
<1>28. ASSUME UNCHANGED vars PROVE IInv'
  BY <1>28
     DEF IInv, RowsAgree, Owners, OwnedRows, StartsCounted, Outcomes, vars, db, worker
<1> QED
  BY <1>1, <1>2, <1>3, <1>4, <1>5, <1>6, <1>7, <1>8, <1>9, <1>10, <1>11, <1>12, <1>13,
     <1>14, <1>15, <1>16, <1>17, <1>18, <1>19, <1>20, <1>21, <1>22, <1>23, <1>24, <1>25,
     <1>26, <1>27, <1>28
     DEF Next, SubmitNext, CallerNext, Looking, Settling, Handling

-----------------------------------------------------------------------------
(* The inductive invariant of every execution.                             *)
LEMMA InitInv == Init => IInv
<1> SUFFICES ASSUME Init PROVE IInv
  OBVIOUS
<1>1. TypeOK
  BY EngineAssumption, RowOps
     DEF Init, TypeOK, TablesOK, ServiceOK, WorkersOK, RequestsOK, BoundsOK, Idle
<1>2. RowsAgree
  BY RowWrites DEF Init, RowsAgree
<1>3. Owners /\ Outcomes
  BY EngineAssumption DEF Init, Owners, Outcomes, Owning
<1>4. OwnedRows
  BY RowWrites DEF Init, OwnedRows, Finishing
<1>5. StartsCounted
  BY DEF Init, StartsCounted, Entered
<1> QED
  BY <1>1, <1>2, <1>3, <1>4, <1>5 DEF IInv

LEMMA Inductive == IInv /\ [Next]_vars => IInv'
<1> SUFFICES ASSUME IInv, [Next]_vars PROVE IInv'
  OBVIOUS
<1>1. OwnedTypes
  BY EngineAssumption DEF IInv, OwnedTypes, Owners, TypeOK, WorkersOK
<1>2. TypeOK'
  BY <1>1, TypeStep DEF IInv
<1> QED
  BY <1>2, InvStep

THEOREM EngineInvariant == Spec => []IInv
  BY InitInv, Inductive, PTL DEF Spec

(* Every variable keeps its type.                                          *)
THEOREM TypeCorrect == Spec => []TypeOK
<1>1. IInv => TypeOK
  BY DEF IInv
<1> QED
  BY <1>1, EngineInvariant, PTL

(* The columns of every row agree, whatever wrote them last.               *)
THEOREM RowsConsistent == Spec => []RowConsistent
<1>1. IInv => RowConsistent
  BY DEF IInv, RowConsistent
<1> QED
  BY <1>1, EngineInvariant, PTL

(* ClaimNextJob never gives a job to two workers, and s.active names the   *)
(* worker that has it.                                                     *)
THEOREM ClaimsExclusive == Spec => []OneWorkerPerJob
<1>1. IInv => OneWorkerPerJob
  BY DEF IInv, Owners, OneWorkerPerJob
<1> QED
  BY <1>1, EngineInvariant, PTL

(* However many times the process dies, only an installation is replayed.  *)
THEOREM NoSecondStart == Spec => []StartedAtMostOnce
<1>1. IInv => StartedAtMostOnce
  BY DEF IInv, StartsCounted, StartedAtMostOnce
<1> QED
  BY <1>1, EngineInvariant, PTL

-----------------------------------------------------------------------------
(* What a step may do to one row: the moves of the life cycle, and a       *)
(* progress report that leaves the status alone.                           *)
Moves(j, r) ==
  \/ job[j].status = "none" /\ r.status = "queued"
  \/ job[j].status = "queued" /\ r.status = "cancelled"
  \/ job[j].status = "queued" /\ r.status = "running" /\ (j \notin InstallJobs => starts[j] = 0)
  \/ job[j].status = "running" /\ r.status = "cancel_requested"
  \/ job[j].status = "cancel_requested" /\ r.status = "cancelled"
  \/ job[j].status \in Live /\ r.status = "succeeded" /\ starts[j] > 0
  \/ job[j].status \in Live /\ r.status = "failed"
  \/ job[j].status \in Live /\ r.status = job[j].status

OneRow(j, r) == /\ job' = [job EXCEPT ![j] = r]
                /\ Moves(j, r)

Cleared == job' = [j \in Jobs |-> IF job[j].status \in Terminal
                                  THEN [NoRow EXCEPT !.status = "deleted"] ELSE job[j]]

Kinds == \/ UNCHANGED job
         \/ \E j \in Jobs, r \in Row : OneRow(j, r)
         \/ job' = [j \in Jobs |-> Recovered(j, job[j])]
         \/ Cleared

(* Only EnterHandler counts a start, and it leaves every row alone.        *)
LEMMA StepKinds ==
  ASSUME IInv, [Next]_vars
  PROVE  \/ UNCHANGED starts /\ Kinds
         \/ \E w \in Workers : EnterHandler(w)
<1>0. /\ TypeOK /\ RowsAgree
      /\ \A j \in Jobs : job[j] \in Row /\ Consistent(job[j])
  BY DEF IInv, RowsAgree, TypeOK, TablesOK
<1>1. ASSUME NEW j \in Jobs, CreateJob(j) PROVE UNCHANGED starts /\ Kinds
  <2>1. PICK k \in CreatedKeys : job' = [job EXCEPT ![j] = Queued(k)]
    BY <1>1, Zenon DEF CreateJob
  <2>2. OneRow(j, Queued(k)) /\ Queued(k) \in Row
    BY <1>1, <2>1, RowOps, RowWrites
       DEF IInv, OwnedRows, CreateJob, SubmitStep, OneRow, Moves
  <2> QED
    BY <1>1, <2>2 DEF Kinds, CreateJob
<1>2. ASSUME NEW c \in Callers, NEW j \in Jobs, RequestJobCancel(c, j) PROVE UNCHANGED starts /\ Kinds
  <2>1. job' = [job EXCEPT ![j] = CancelRequested(job[j])] /\ CancelRequested(job[j]) \in Row
    BY <1>0, <1>2, RowOps DEF RequestJobCancel
  <2>2. Moves(j, CancelRequested(job[j]))
    BY <1>0, <1>2, StatusMoves DEF RequestJobCancel, Moves
  <2> QED
    BY <1>2, <2>1, <2>2, Zenon DEF Kinds, OneRow, RequestJobCancel
<1>3. ASSUME NEW w \in Workers, ClaimNextJob(w) PROVE UNCHANGED starts /\ Kinds
  <2>1. PICK j \in Jobs : /\ NextQueued(j)
                          /\ job' = [job EXCEPT ![j] = Claimed(job[j])]
                          /\ wjob' = [wjob EXCEPT ![w] = j]
    BY <1>3, Zenon DEF ClaimNextJob
  <2>2. Claimed(job[j]) \in Row /\ Moves(j, Claimed(job[j]))
    BY <1>0, <2>1, RowOps, RowWrites DEF NextQueued, Moves, IInv, StartsCounted
  <2> QED
    BY <1>3, <2>1, <2>2, Zenon DEF Kinds, OneRow, ClaimNextJob
<1>4. ASSUME NEW w \in Workers, NEW p \in Reports, Progress(w, p) PROVE UNCHANGED starts /\ Kinds
  <2>1. wjob[w] \in Jobs /\ job[wjob[w]].status \in Live
    BY <1>0, <1>4 DEF Progress, IInv, Owners, Owning, TypeOK, WorkersOK
  <2> DEFINE r == [job[wjob[w]] EXCEPT !.progress = p]
  <2>2. r \in Row /\ Moves(wjob[w], r)
    BY <1>0, <2>1, RowOps DEF Moves
  <2>3. job' = [job EXCEPT ![wjob[w]] = r] /\ UNCHANGED starts
    BY <1>4 DEF Progress
  <2> HIDE DEF r
  <2> QED
    BY <2>1, <2>2, <2>3, Zenon DEF Kinds, OneRow
<1>5. ASSUME NEW w \in Workers, pc[w] \in Finishing, NEW r \in Row, UNCHANGED starts,
             job' = [job EXCEPT ![wjob[w]] = r] \/ UNCHANGED job,
             Moves(wjob[w], r)
      PROVE  UNCHANGED starts /\ Kinds
  <2>1. wjob[w] \in Jobs
    BY <1>0, <1>5 DEF IInv, Owners, Owning, Finishing, TypeOK, WorkersOK
  <2> QED
    BY <1>5, <2>1, Zenon DEF Kinds, OneRow
<1>6. ASSUME NEW w \in Workers, pc[w] \in Finishing
      PROVE  wjob[w] \in Jobs /\ job[wjob[w]] \in Row /\ Consistent(job[wjob[w]]) /\ job[wjob[w]].status \in Live
  BY <1>0, <1>6 DEF IInv, Owners, OwnedRows, Owning, Finishing, TypeOK, WorkersOK
<1>7. ASSUME NEW w \in Workers, FailUnknown(w) PROVE UNCHANGED starts /\ Kinds
  <2>1. pc[w] \in Finishing /\ UNCHANGED starts
    BY <1>7 DEF FailUnknown, WorkerStep, Finishing
  <2> DEFINE r == Failed(job[wjob[w]], "handler_not_registered")
  <2>2. r \in Row /\ Moves(wjob[w], r)
    BY <1>6, <2>1, RowOps, RowWrites DEF Moves, Errors
  <2>3. job' = [job EXCEPT ![wjob[w]] = r] \/ UNCHANGED job
    BY <1>7 DEF FailUnknown, Store, Stored
  <2> HIDE DEF r
  <2> QED
    BY <1>5, <2>1, <2>2, <2>3
<1>8. ASSUME NEW w \in Workers, MarkJobCancelled(w) PROVE UNCHANGED starts /\ Kinds
  <2>1. pc[w] \in Finishing /\ job[wjob[w]].status = "cancel_requested" /\ UNCHANGED starts
    BY <1>8 DEF MarkJobCancelled, WorkerStep, Finishing, IInv, OwnedRows
  <2> DEFINE r == MarkedCancelled(job[wjob[w]])
  <2>2. r \in Row /\ Moves(wjob[w], r)
    BY <1>6, <2>1, RowOps, RowWrites DEF Moves
  <2>3. job' = [job EXCEPT ![wjob[w]] = r] \/ UNCHANGED job
    BY <1>8 DEF MarkJobCancelled, Store, Stored
  <2> HIDE DEF r
  <2> QED
    BY <1>5, <2>1, <2>2, <2>3
<1>9. ASSUME NEW w \in Workers, RecordOutcome(w) PROVE UNCHANGED starts /\ Kinds
  <2>1. /\ pc[w] \in Finishing /\ UNCHANGED starts /\ starts[wjob[w]] > 0
        /\ outcome[w] \in {"ok", "error", "canceled"}
    BY <1>9
       DEF RecordOutcome, WorkerStep, Finishing, Entered, Outcomes, IInv, StartsCounted
  <2> DEFINE r == CASE outcome[w] = "ok"       -> Completed(job[wjob[w]])
                    [] outcome[w] = "error"    -> Failed(job[wjob[w]], "job_failed")
                    [] outcome[w] = "canceled" -> Failed(job[wjob[w]], "cancelled")
  <2>2. r \in Row /\ Moves(wjob[w], r)
    BY <1>6, <2>1, RowOps, RowWrites DEF Moves, Errors
  <2>3. job' = [job EXCEPT ![wjob[w]] = r] \/ UNCHANGED job
    BY <1>9 DEF RecordOutcome, Store, Stored
  <2> HIDE DEF r
  <2> QED
    BY <1>5, <2>1, <2>2, <2>3
<1>10. ASSUME ClearTerminalJobs \/ RecoverInterruptedJobs PROVE UNCHANGED starts /\ Kinds
  BY <1>10, Zenon DEF ClearTerminalJobs, RecoverInterruptedJobs, Kinds, Cleared
<1>11. ASSUME NEW j \in Jobs, Signal(j) PROVE UNCHANGED starts /\ Kinds
  BY <1>11 DEF Signal, db, Kinds
<1>12. ASSUME NEW c \in Callers, CallerNext(c) PROVE UNCHANGED starts /\ Kinds
  BY <1>12 DEF CallerNext, ReadCancelled, CancelHandler, AnswerCancel, db, Kinds
<1>13. ASSUME NEW w \in Workers, NoJob(w) \/ Wake(w) \/ Tick(w) \/ ReturnFromHandler(w)
       PROVE  UNCHANGED starts /\ Kinds
  BY <1>13 DEF NoJob, Wake, Tick, ReturnFromHandler, db, Kinds
<1>14. ASSUME NEW w \in Workers,
              ReadClaimed(w) \/ EmitRefused(w) \/ Activate(w) \/ Deactivate(w) \/ ReadCurrent(w) \/ EmitOutcome(w)
       PROVE  UNCHANGED starts /\ Kinds
  BY <1>14
     DEF ReadClaimed, EmitRefused, Activate, Deactivate, ReadCurrent, EmitOutcome, db,
     Kinds
<1>15. ASSUME Stop \/ Exit \/ Crash \/ UNCHANGED vars PROVE UNCHANGED starts /\ Kinds
  BY <1>15 DEF Stop, Exit, Crash, NewProcess, vars, db, Kinds
<1> QED
  BY <1>1, <1>2, <1>3, <1>4, <1>7, <1>8, <1>9, <1>10, <1>11, <1>12, <1>13, <1>14, <1>15
     DEF Next, SubmitNext, Looking, Settling, Handling

(* No step rewrites a finished row; it can only be cleared.                *)
THEOREM FinishedRowsStay == Spec => TerminalIsFinal
<1> DEFINE Final == \A j \in Jobs : job[j].status \in Terminal =>
                      job'[j] = job[j] \/ job'[j].status = "deleted"
<1>1. ASSUME IInv, [Next]_vars PROVE Final
  <2>1. /\ job \in [Jobs -> Row]
        /\ \A j \in Jobs : job[j] \in Row
    BY <1>1 DEF IInv, TypeOK, TablesOK
  <2>2. CASE UNCHANGED job
    BY <2>2
  <2>3. ASSUME NEW i \in Jobs, NEW r \in Row, OneRow(i, r) PROVE Final
    <3>1. job[i].status \notin Terminal
      BY <2>3 DEF OneRow, Moves, Terminal, Live
    <3>2. \A j \in Jobs : j # i => job'[j] = job[j]
      BY <2>1, <2>3 DEF OneRow
    <3> QED
      BY <3>1, <3>2
  <2>4. CASE job' = [j \in Jobs |-> Recovered(j, job[j])]
    BY <2>1, <2>4, StatusMoves DEF Terminal, Live
  <2>5. CASE Cleared
    BY <2>5 DEF Cleared, NoRow
  <2>6. ASSUME NEW w \in Workers, EnterHandler(w) PROVE Final
    BY <2>6 DEF EnterHandler
  <2> HIDE DEF Final
  <2> QED
    BY <1>1, StepKinds, <2>2, <2>3, <2>4, <2>5, <2>6 DEF Kinds
<1>2. IInv /\ [Next]_vars => [Final]_vars
  BY <1>1
<1> QED
  BY <1>2, EngineInvariant, PTL DEF Spec, TerminalIsFinal

-----------------------------------------------------------------------------
(* What an event says of the status of its job, whose row may be cleared.  *)
Says(type, status) ==
  \/ status = "deleted"
  \/ type = "job.succeeded" /\ status = "succeeded"
  \/ type = "job.failed" /\ status = "failed"
  \/ type = "job.cancelled" /\ status = "cancelled"

EventOf(o) == CASE o = "ok"     -> "job.succeeded"
                [] o = "marked" -> "job.cancelled"
                [] OTHER        -> "job.failed"

(* The events that are logged say what the rows do, and so do those that a *)
(* worker is about to log: with no failed write behind it, it has written  *)
(* the outcome, and a finished row changes no more.                        *)
LogIsTrue == \A j \in Jobs : \A type \in log[j] : Says(type, job[j].status)
Announced == \A w \in Workers : pc[w] = "announcing" => Says(EventOf(outcome[w]), job[wjob[w]].status)
RefusedIsFailed == \A w \in Workers :
  pc[w] = "refusing" /\ engine = "running" => Says("job.failed", job[wjob[w]].status)

EventsFit == faults = 0 => LogIsTrue /\ Announced /\ RefusedIsFailed

(* What a logged event says stays true.                                    *)
LEMMA SayingsStay ==
  ASSUME IInv, [Next]_vars, NEW j \in Jobs, NEW type, Says(type, job[j].status)
  PROVE  Says(type, job'[j].status)
<1>1. job \in [Jobs -> Row] /\ job[j].status \in Terminal \cup {"deleted"}
  BY DEF IInv, TypeOK, TablesOK, Says, Terminal
<1>2. job'[j].status = job[j].status \/ job'[j].status = "deleted"
  <2>1. CASE UNCHANGED job
    BY <2>1
  <2>2. ASSUME NEW i \in Jobs, NEW r \in Row, OneRow(i, r)
        PROVE  job'[j].status = job[j].status
    <3>1. job[i].status \notin Terminal \cup {"deleted"}
      BY <2>2 DEF OneRow, Moves, Terminal, Live
    <3> QED BY <1>1, <2>2, <3>1 DEF OneRow
  <2>3. CASE job' = [i \in Jobs |-> Recovered(i, job[i])]
    BY <1>1, <2>3, StatusMoves DEF Terminal, Live
  <2>4. CASE Cleared
    BY <2>4 DEF Cleared, NoRow
  <2>5. CASE \E w \in Workers : EnterHandler(w)
    BY <2>5 DEF EnterHandler
  <2> QED BY StepKinds, <2>1, <2>2, <2>3, <2>4, <2>5 DEF Kinds
<1> QED BY <1>2 DEF Says

(* How a worker comes to have something to say.                            *)
SameWorker(v) == pc'[v] = pc[v] /\ wjob'[v] = wjob[v] /\ outcome'[v] = outcome[v]
LEMMA WhoAnnounces ==
  ASSUME IInv, [Next]_vars, NEW v \in Workers
  PROVE  /\ pc'[v] = "announcing" => SameWorker(v) \/ MarkJobCancelled(v) \/ RecordOutcome(v)
         /\ pc'[v] = "refusing" /\ engine' = "running"
            => (SameWorker(v) /\ engine = "running") \/ FailUnknown(v)
<1> DEFINE Goal == /\ pc'[v] = "announcing" => SameWorker(v) \/ MarkJobCancelled(v) \/ RecordOutcome(v)
                   /\ pc'[v] = "refusing" /\ engine' = "running"
                      => (SameWorker(v) /\ engine = "running") \/ FailUnknown(v)
<1>1. /\ pc \in [Workers -> Idle \cup Owning]
      /\ wjob \in [Workers -> Jobs \cup {None}]
      /\ outcome \in [Workers -> {"none", "ok", "error", "canceled", "marked"}]
  BY DEF IInv, TypeOK, WorkersOK
<1>2. ASSUME SameWorker(v), engine' = engine
      PROVE  Goal
  BY <1>2 DEF SameWorker
<1>3. ASSUME NEW j \in Jobs, SubmitNext(j)
      PROVE  Goal
  BY <1>2, <1>3 DEF SubmitNext, CreateJob, Signal, worker, SameWorker
<1>4. ASSUME NEW c \in Callers, CallerNext(c) \/ \E j \in Jobs : RequestJobCancel(c, j)
      PROVE  Goal
  BY <1>2, <1>4
     DEF CallerNext, ReadCancelled, CancelHandler, AnswerCancel, RequestJobCancel, worker, SameWorker
<1>5. ASSUME RecoverInterruptedJobs
      PROVE  Goal
  <2>1. engine = "recovering" /\ pc' = pc /\ wjob' = wjob /\ outcome' = outcome
    BY <1>5 DEF RecoverInterruptedJobs, worker
  <2>2. wjob[v] = None
    BY <2>1 DEF IInv, Owners
  <2>3. pc[v] \notin Owning
    BY <2>2 DEF IInv, Owners
  <2> QED BY <2>1, <2>3 DEF Owning, SameWorker
<1>6. ASSUME ClearTerminalJobs \/ UNCHANGED vars
      PROVE  Goal
  BY <1>2, <1>6 DEF ClearTerminalJobs, vars, worker, SameWorker
<1>7. ASSUME Stop
      PROVE  Goal
  BY <1>7 DEF Stop, SameWorker
<1>8. ASSUME Exit \/ Crash
      PROVE  Goal
  BY <1>8 DEF Exit, Crash, NewProcess
<1>9. ASSUME NEW w \in Workers, Looking(w) \/ Settling(w) \/ Handling(w), w # v
      PROVE  SameWorker(v) /\ engine' = engine
  <2>1. CASE Looking(w)
    BY <1>1, <1>9, <2>1 DEF Looking, ClaimNextJob, NoJob, Wake, Tick, WorkerStep, SameWorker
  <2>2. CASE ReadClaimed(w) \/ FailUnknown(w) \/ EmitRefused(w) \/ Activate(w)
    BY <1>1, <1>9, <2>2 DEF ReadClaimed, FailUnknown, EmitRefused, Activate, WorkerStep, SameWorker
  <2>3. CASE EnterHandler(w) \/ Deactivate(w) \/ ReadCurrent(w) \/ MarkJobCancelled(w)
    BY <1>1, <1>9, <2>3
       DEF EnterHandler, Deactivate, ReadCurrent, MarkJobCancelled, WorkerStep, SameWorker
  <2>4. CASE RecordOutcome(w) \/ EmitOutcome(w)
    BY <1>1, <1>9, <2>4 DEF RecordOutcome, EmitOutcome, WorkerStep, SameWorker
  <2>5. CASE Handling(w)
    BY <1>1, <1>9, <2>5 DEF Handling, ReturnFromHandler, Progress, worker, WorkerStep, SameWorker
  <2> QED BY <1>9, <2>1, <2>2, <2>3, <2>4, <2>5 DEF Settling
<1>10. ASSUME Looking(v)
      PROVE  Goal
  BY <1>1, <1>10 DEF Looking, ClaimNextJob, NoJob, Wake, Tick, WorkerStep
<1>11. ASSUME ReadClaimed(v) \/ EmitRefused(v) \/ Activate(v) \/ EnterHandler(v)
      PROVE  Goal
  BY <1>1, <1>11 DEF ReadClaimed, EmitRefused, Activate, EnterHandler, WorkerStep
<1>12. ASSUME FailUnknown(v) \/ MarkJobCancelled(v) \/ RecordOutcome(v)
      PROVE  Goal
  BY <1>1, <1>12 DEF FailUnknown, MarkJobCancelled, RecordOutcome, WorkerStep
<1>13. ASSUME Deactivate(v) \/ ReadCurrent(v) \/ EmitOutcome(v)
      PROVE  Goal
  BY <1>1, <1>13 DEF Deactivate, ReadCurrent, EmitOutcome, WorkerStep
<1>14. ASSUME Handling(v)
      PROVE  Goal
  <2>1. CASE ReturnFromHandler(v)
    BY <1>1, <2>1 DEF ReturnFromHandler, WorkerStep
  <2>2. ASSUME NEW p \in Reports, Progress(v, p)
        PROVE  SameWorker(v) /\ engine' = engine
    BY <2>2 DEF Progress, worker, SameWorker
  <2> QED BY <1>2, <1>14, <2>1, <2>2 DEF Handling
<1>15. ASSUME NEW w \in Workers, Looking(w) \/ Settling(w) \/ Handling(w)
       PROVE  Goal
  <2>1. CASE w # v
    BY <1>2, <1>9, <1>15, <2>1
  <2>2. CASE w = v
    BY <1>10, <1>11, <1>12, <1>13, <1>14, <1>15, <2>2 DEF Settling
  <2> QED BY <2>1, <2>2
<1> HIDE DEF Goal
<1>16. Goal
  BY <1>3, <1>4, <1>5, <1>6, <1>7, <1>8, <1>15 DEF Next
<1> QED BY <1>16 DEF Goal

(* Only the two announcements write to the log.                            *)
LEMMA WhoLogs ==
  ASSUME IInv, [Next]_vars
  PROVE  UNCHANGED log \/ \E w \in Workers : EmitRefused(w) \/ EmitOutcome(w)
<1>1. ASSUME NEW j \in Jobs, SubmitNext(j)
      PROVE  UNCHANGED log
  BY <1>1 DEF SubmitNext, CreateJob, Signal, db
<1>2. ASSUME NEW c \in Callers, CallerNext(c) \/ \E j \in Jobs : RequestJobCancel(c, j)
      PROVE  UNCHANGED log
  BY <1>2 DEF CallerNext, ReadCancelled, CancelHandler, AnswerCancel, RequestJobCancel, db
<1>3. ASSUME NEW w \in Workers, Looking(w) \/ Handling(w)
      PROVE  UNCHANGED log
  BY <1>3 DEF Looking, ClaimNextJob, NoJob, Wake, Tick, Handling, ReturnFromHandler, Progress, db
<1>4. ASSUME NEW w \in Workers, ReadClaimed(w) \/ FailUnknown(w) \/ Activate(w) \/ EnterHandler(w)
                                \/ Deactivate(w)
      PROVE  UNCHANGED log
  BY <1>4 DEF ReadClaimed, FailUnknown, Activate, EnterHandler, Deactivate, db
<1>5. ASSUME NEW w \in Workers, ReadCurrent(w) \/ MarkJobCancelled(w) \/ RecordOutcome(w)
      PROVE  UNCHANGED log
  BY <1>5 DEF ReadCurrent, MarkJobCancelled, RecordOutcome, db
<1>6. ASSUME \/ RecoverInterruptedJobs \/ ClearTerminalJobs \/ Stop \/ Exit \/ Crash \/ UNCHANGED vars
      PROVE  UNCHANGED log
  BY <1>6 DEF RecoverInterruptedJobs, ClearTerminalJobs, Stop, Exit, Crash, NewProcess, vars, db
<1> QED BY <1>1, <1>2, <1>3, <1>4, <1>5, <1>6 DEF Next, Settling

(* Failed calls are counted, never uncounted.                              *)
LEMMA FaultsCounted ==
  ASSUME IInv, IInv', [Next]_vars, faults' = 0
  PROVE  faults = 0
<1>1. faults \in Nat
  BY EngineAssumption DEF IInv, TypeOK, BoundsOK
<1>2. ASSUME Fault \/ NoFault
      PROVE  faults = 0
  BY <1>1, <1>2 DEF Fault, NoFault
<1>3. ASSUME UNCHANGED faults
      PROVE  faults = 0
  BY <1>3
<1>4. ASSUME NEW j \in Jobs, SubmitNext(j)
      PROVE  faults = 0
  BY <1>3, <1>4 DEF SubmitNext, CreateJob, Signal
<1>5. ASSUME NEW c \in Callers, CallerNext(c) \/ \E j \in Jobs : RequestJobCancel(c, j)
      PROVE  faults = 0
  BY <1>2, <1>3, <1>5 DEF CallerNext, ReadCancelled, CancelHandler, AnswerCancel, RequestJobCancel
<1>6. ASSUME NEW w \in Workers, Looking(w) \/ Handling(w)
      PROVE  faults = 0
  BY <1>3, <1>6 DEF Looking, ClaimNextJob, NoJob, Wake, Tick, Handling, ReturnFromHandler, Progress
<1>7. ASSUME NEW w \in Workers, ReadClaimed(w) \/ FailUnknown(w) \/ EmitRefused(w)
      PROVE  faults = 0
  BY <1>2, <1>7 DEF ReadClaimed, FailUnknown, EmitRefused, Stopped, Store, Stored, Emit
<1>8. ASSUME NEW w \in Workers, Activate(w) \/ EnterHandler(w) \/ Deactivate(w)
      PROVE  faults = 0
  BY <1>3, <1>8 DEF Activate, EnterHandler, Deactivate
<1>9. ASSUME NEW w \in Workers,
             ReadCurrent(w) \/ MarkJobCancelled(w) \/ RecordOutcome(w) \/ EmitOutcome(w)
      PROVE  faults = 0
  BY <1>2, <1>9 DEF ReadCurrent, MarkJobCancelled, RecordOutcome, EmitOutcome, Store, Stored, Emit
<1>10. ASSUME \/ RecoverInterruptedJobs \/ ClearTerminalJobs \/ Stop \/ Exit \/ Crash \/ UNCHANGED vars
       PROVE  faults = 0
  BY <1>2, <1>3, <1>10
     DEF RecoverInterruptedJobs, ClearTerminalJobs, Stop, Exit, Crash, NewProcess, vars
<1> QED BY <1>4, <1>5, <1>6, <1>7, <1>8, <1>9, <1>10 DEF Next, Settling

(* A write that did not fail was made.                                     *)
LEMMA NoFaultStores ==
  ASSUME faults = 0, faults' = 0, NEW j, NEW r, Store(j, r)
  PROVE  job' = [job EXCEPT ![j] = r]
BY DEF Store, Stored, Fault

(* The inductive step.                                                     *)
LEMMA EventsStep ==
  ASSUME IInv, IInv', EventsFit, [Next]_vars
  PROVE  EventsFit'
<1> SUFFICES ASSUME faults' = 0
             PROVE  (LogIsTrue /\ Announced /\ RefusedIsFailed)'
  BY DEF EventsFit
<1>1. faults = 0 /\ LogIsTrue /\ Announced /\ RefusedIsFailed
  BY FaultsCounted DEF EventsFit
<1>2. /\ job \in [Jobs -> Row] /\ log \in [Jobs -> SUBSET EventTypes]
      /\ \A w \in Workers : pc[w] \in Owning => wjob[w] \in Jobs
      /\ \A w \in Workers : pc[w] \in Finishing => job[wjob[w]].status \in Live
  BY DEF IInv, TypeOK, TablesOK, WorkersOK, Owners, OwnedRows
<1>3. LogIsTrue'
  <2>1. CASE UNCHANGED log
    <3>1. ASSUME NEW j \in Jobs, NEW type \in log[j]
          PROVE  Says(type, job'[j].status)
      BY <1>1, <3>1, SayingsStay DEF LogIsTrue
    <3> QED BY <2>1, <3>1 DEF LogIsTrue
  <2>2. ASSUME NEW j \in Jobs, NEW type, Says(type, job[j].status), UNCHANGED job,
               log' = Logged(j, type)
        PROVE  LogIsTrue'
    BY <1>1, <1>2, <2>2 DEF LogIsTrue, Logged
  <2>3. ASSUME NEW w \in Workers, EmitRefused(w), log' # log
        PROVE  LogIsTrue'
    <3>1. /\ pc[w] = "refusing" /\ engine = "running" /\ UNCHANGED job
          /\ log' = Logged(wjob[w], "job.failed")
      BY <2>3 DEF EmitRefused, WorkerStep, Emit
    <3> QED BY <1>1, <1>2, <2>2, <3>1 DEF RefusedIsFailed, Owning
  <2>4. ASSUME NEW w \in Workers, EmitOutcome(w), log' # log
        PROVE  LogIsTrue'
    <3>1. /\ pc[w] = "announcing" /\ UNCHANGED job
          /\ log' = Logged(wjob[w], EventOf(outcome[w]))
      BY <2>4 DEF EmitOutcome, WorkerStep, Emit, EventOf
    <3> QED BY <1>1, <1>2, <2>2, <3>1 DEF Announced, Owning
  <2> QED BY <2>1, <2>3, <2>4, WhoLogs
<1>4. ASSUME NEW v \in Workers, pc'[v] = "announcing"
      PROVE  Says(EventOf(outcome'[v]), job'[wjob'[v]].status)
  <2>1. CASE SameWorker(v)
    <3>1. pc[v] = "announcing" /\ wjob'[v] = wjob[v] /\ outcome'[v] = outcome[v] /\ wjob[v] \in Jobs
      BY <1>2, <1>4, <2>1 DEF SameWorker, Owning
    <3> QED BY <1>1, <3>1, SayingsStay DEF Announced
  <2>2. CASE MarkJobCancelled(v)
    <3>1. /\ pc[v] = "cancelling" /\ Store(wjob[v], MarkedCancelled(job[wjob[v]]))
          /\ outcome' = [outcome EXCEPT ![v] = "marked"] /\ wjob' = wjob
      BY <2>2 DEF MarkJobCancelled, WorkerStep
    <3>2. wjob[v] \in Jobs /\ job[wjob[v]].status \in Live /\ outcome'[v] = "marked"
      BY <1>2, <3>1 DEF Owning, Finishing, IInv, TypeOK, WorkersOK
    <3>3. job'[wjob[v]] = MarkedCancelled(job[wjob[v]])
      BY <1>1, <1>2, <3>1, <3>2, NoFaultStores
    <3>4. job'[wjob[v]].status = "cancelled"
      BY <1>2, <3>2, <3>3 DEF MarkedCancelled, Row
    <3> QED BY <3>1, <3>2, <3>4 DEF Says, EventOf
  <2>3. CASE RecordOutcome(v)
    <3> DEFINE r == CASE outcome[v] = "ok"       -> Completed(job[wjob[v]])
                      [] outcome[v] = "error"    -> Failed(job[wjob[v]], "job_failed")
                      [] outcome[v] = "canceled" -> Failed(job[wjob[v]], "cancelled")
    <3>1. pc[v] = "recording" /\ Store(wjob[v], r) /\ outcome' = outcome /\ wjob' = wjob
      BY <2>3 DEF RecordOutcome, WorkerStep
    <3>2. /\ wjob[v] \in Jobs /\ job[wjob[v]] \in Row /\ job[wjob[v]].status \in Live
          /\ outcome[v] \in {"ok", "error", "canceled"}
      BY <1>2, <3>1 DEF Owning, Finishing, IInv, Outcomes
    <3>3. r.status = IF outcome[v] = "ok" THEN "succeeded" ELSE "failed"
      BY <3>2 DEF Completed, Failed, Row
    <3> HIDE DEF r
    <3>4. job'[wjob[v]] = r
      BY <1>1, <1>2, <3>1, <3>2, NoFaultStores
    <3> QED BY <3>1, <3>2, <3>3, <3>4 DEF Says, EventOf
  <2> QED BY <1>4, <2>1, <2>2, <2>3, WhoAnnounces
<1>5. ASSUME NEW v \in Workers, pc'[v] = "refusing", engine' = "running"
      PROVE  Says("job.failed", job'[wjob'[v]].status)
  <2>1. CASE SameWorker(v) /\ engine = "running"
    <3>1. pc[v] = "refusing" /\ wjob'[v] = wjob[v] /\ wjob[v] \in Jobs
      BY <1>2, <1>5, <2>1 DEF SameWorker, Owning
    <3> QED BY <1>1, <2>1, <3>1, SayingsStay DEF RefusedIsFailed
  <2>2. CASE FailUnknown(v)
    <3>1. /\ pc[v] = "unknown" /\ Store(wjob[v], Failed(job[wjob[v]], "handler_not_registered"))
          /\ wjob' = wjob
      BY <1>5, <2>2 DEF FailUnknown, WorkerStep, Stopped
    <3>2. wjob[v] \in Jobs /\ job[wjob[v]] \in Row /\ job[wjob[v]].status \in Live
      BY <1>2, <3>1 DEF Owning, Finishing
    <3>3. job'[wjob[v]] = Failed(job[wjob[v]], "handler_not_registered")
      BY <1>1, <1>2, <3>1, <3>2, NoFaultStores
    <3>4. job'[wjob[v]].status = "failed"
      BY <3>2, <3>3 DEF Failed, Row
    <3> QED BY <3>1, <3>4 DEF Says
  <2> QED BY <1>5, <2>1, <2>2, WhoAnnounces
<1> QED BY <1>3, <1>4, <1>5 DEF Announced, RefusedIsFailed

(* While no store call has failed, a final event in the durable history    *)
(* tells what the row of its job says, whoever wrote it and whatever was   *)
(* cancelled, stopped or lost on the way (FinalEventIsTrue).               *)
THEOREM EventsTell == Spec => []FinalEventIsTrue
<1>1. Init => EventsFit
  BY DEF Init, EventsFit, LogIsTrue, Announced, RefusedIsFailed
<1>2. IInv /\ IInv' /\ EventsFit /\ [Next]_vars => EventsFit'
  BY EventsStep
<1>3. IInv /\ EventsFit => FinalEventIsTrue
  BY DEF EventsFit, LogIsTrue, FinalEventIsTrue, Says
<1> QED BY <1>1, <1>2, <1>3, EngineInvariant, PTL DEF Spec

-----------------------------------------------------------------------------
(* Refinement of JobLifecycle.                                             *)
abstract == [j \in Jobs |-> job[j].status]

LEMMA AbstractMove ==
  ASSUME NEW j \in Jobs, NEW r \in Row, job \in [Jobs -> Row],
         job' = [job EXCEPT ![j] = r]
  PROVE  abstract' = [abstract EXCEPT ![j] = r.status]
  BY DEF abstract

LEMMA LifecycleInit == Init => Lifecycle!Init
  BY RowWrites DEF Init, Lifecycle!Init

LEMMA LifecycleStep ==
  ASSUME IInv, [Next]_vars
  PROVE  [Lifecycle!Next]_(Lifecycle!lifecycleVars)
<1> DEFINE Goal == Lifecycle!Next \/ UNCHANGED <<abstract, starts>>
<1>0. /\ job \in [Jobs -> Row] /\ starts \in [Jobs -> Nat]
      /\ \A j \in Jobs : job[j] \in Row /\ abstract[j] = job[j].status
  BY DEF IInv, TypeOK, TablesOK, abstract
<1>1. ASSUME UNCHANGED starts, NEW j \in Jobs, NEW r \in Row, OneRow(j, r)
      PROVE  Goal
  <2>1. abstract' = [abstract EXCEPT ![j] = r.status]
    BY <1>0, <1>1, AbstractMove DEF OneRow
  <2>2. CASE job[j].status = "none" /\ r.status = "queued"
    BY <1>0, <1>1, <2>1, <2>2
       DEF abstract, Lifecycle!Next, Lifecycle!Create, Lifecycle!Move
  <2>3. CASE job[j].status = "queued" /\ r.status = "cancelled"
    BY <1>0, <1>1, <2>1, <2>3
       DEF abstract, Lifecycle!Next, Lifecycle!CancelQueued, Lifecycle!Move
  <2>4. CASE job[j].status = "queued" /\ r.status = "running" /\ (j \notin InstallJobs => starts[j] = 0)
    BY <1>0, <1>1, <2>1, <2>4
       DEF abstract, Lifecycle!Next, Lifecycle!Claim, Lifecycle!Move, Lifecycle!MayStart
  <2>5. CASE job[j].status = "running" /\ r.status = "cancel_requested"
    BY <1>0, <1>1, <2>1, <2>5
       DEF abstract, Lifecycle!Next, Lifecycle!CancelRunning, Lifecycle!Move
  <2>6. CASE job[j].status = "cancel_requested" /\ r.status = "cancelled"
    BY <1>0, <1>1, <2>1, <2>6
       DEF abstract, Lifecycle!Next, Lifecycle!Cancelled, Lifecycle!Move
  <2>7. CASE job[j].status \in Live /\ r.status = "succeeded" /\ starts[j] > 0
    BY <1>0, <1>1, <2>1, <2>7
       DEF abstract, Lifecycle!Next, Lifecycle!Succeed, Lifecycle!Move, Lifecycle!Live, Live
  <2>8. CASE job[j].status \in Live /\ r.status = "failed"
    BY <1>0, <1>1, <2>1, <2>8
       DEF abstract, Lifecycle!Next, Lifecycle!Fail, Lifecycle!Move, Lifecycle!Live, Live
  <2>9. CASE job[j].status \in Live /\ r.status = job[j].status
    <3>1. abstract' = abstract
      BY <1>0, <2>1, <2>9 DEF abstract
    <3> QED
      BY <1>1, <3>1
  <2> HIDE DEF Goal
  <2> QED
    BY <1>1, <2>2, <2>3, <2>4, <2>5, <2>6, <2>7, <2>8, <2>9 DEF OneRow, Moves
<1>2. ASSUME UNCHANGED starts, job' = [j \in Jobs |-> Recovered(j, job[j])]
      PROVE  Goal
  <2>1. \A j \in Jobs : Recovered(j, job[j]).status = Lifecycle!Restarted(j)
    BY <1>0, StatusMoves DEF abstract, Lifecycle!Restarted, Live
  <2>2. abstract' = [j \in Jobs |-> Recovered(j, job[j]).status]
    BY <1>2 DEF abstract
  <2>3. Lifecycle!Restart
    BY <1>2, <2>1, <2>2 DEF abstract, Lifecycle!Restart
  <2> QED
    BY <2>3 DEF Lifecycle!Next
<1>3. ASSUME UNCHANGED starts, Cleared
      PROVE  Goal
  <2>1. abstract' = [j \in Jobs |-> IF job[j].status \in Terminal THEN "deleted" ELSE job[j].status]
    BY <1>3 DEF abstract, Cleared, NoRow
  <2>2. Lifecycle!Clear
    BY <1>0, <1>3, <2>1 DEF abstract, Lifecycle!Clear, Lifecycle!Terminal, Terminal
  <2> QED
    BY <2>2 DEF Lifecycle!Next
<1>4. ASSUME NEW w \in Workers, EnterHandler(w)
      PROVE  Goal
  <2>1. /\ wjob[w] \in Jobs /\ job[wjob[w]].status \in Live
        /\ wjob[w] \notin InstallJobs => starts[wjob[w]] = 0
    BY <1>4 DEF EnterHandler, WorkerStep, IInv, Owners, OwnedRows, StartsCounted,
                Owning, Finishing, TypeOK, WorkersOK
  <2>2. UNCHANGED job /\ starts' = [starts EXCEPT ![wjob[w]] = @ + 1]
    BY <1>4 DEF EnterHandler
  <2>3. Lifecycle!Start(wjob[w])
    BY <1>0, <2>1, <2>2
       DEF abstract, Lifecycle!Start, Lifecycle!MayStart, Lifecycle!Live, Live
  <2> QED
    BY <2>1, <2>3 DEF Lifecycle!Next
<1>5. ASSUME UNCHANGED starts, UNCHANGED job
      PROVE  Goal
  <2>1. abstract' = abstract
    BY <1>5 DEF abstract
  <2> QED
    BY <1>5, <2>1
<1>6. Goal
  <2> HIDE DEF Goal
  <2>1. CASE UNCHANGED starts /\ Kinds
    BY <1>1, <1>2, <1>3, <1>5, <2>1, Zenon DEF Kinds
  <2>2. CASE \E w \in Workers : EnterHandler(w)
    BY <1>4, <2>2
  <2> QED
    BY StepKinds, <2>1, <2>2
<1> QED
  BY <1>6 DEF abstract, Lifecycle!lifecycleVars

(* The engine implements the job life cycle: every change of a row, in     *)
(* every interleaving and through every crash, is one of its moves.        *)
THEOREM Refinement == Spec => ImplementsLifecycle
<1>1. Init => Lifecycle!Init
  BY LifecycleInit
<1>2. IInv /\ [Next]_vars => [Lifecycle!Next]_(Lifecycle!lifecycleVars)
  BY LifecycleStep
<1> QED
  BY <1>1, <1>2, EngineInvariant, PTL DEF Spec, ImplementsLifecycle, Lifecycle!Spec
=============================================================================
