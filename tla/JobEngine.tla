------------------------------ MODULE JobEngine ------------------------------
(***************************************************************************)
(* The persistent job engine of Home-AI-Core: jobs.Service (its workers,   *)
(* Submit, Cancel, Run) over the jobs table of the SQLite store, with the  *)
(* durable job events it appends, the loss of the process at any point and *)
(* the recovery that the next start performs.                              *)
(*                                                                         *)
(* Every SQL statement or transaction is one step: the store opens one     *)
(* connection (db.SetMaxOpenConns(1)).  Everything between two of them -   *)
(* a worker between the claim and the registration of its cancel function, *)
(* a caller between the cancel row and the cancel function - interleaves.  *)
(***************************************************************************)
EXTENDS Naturals, FiniteSets

CONSTANTS
  Jobs,          (* job ids                                                *)
  Workers,       (* the goroutines Run starts (2 in cmd/home-ai-core)      *)
  Callers,       (* concurrent HTTP requests that cancel a job             *)
  InstallJobs,   (* jobs of type module.install                            *)
  KnownJobs,     (* jobs whose type has a registered handler               *)
  CreatedKeys,   (* values of the created_at text the claim orders by      *)
  Reports,       (* the progress values handlers report                    *)
  None,          (* no worker, no job                                      *)
  MaxCrashes,    (* bound: process exits explored                          *)
  MaxFaults      (* bound: failed store calls explored                     *)

Full == 10000    (* progress counts to ten thousand *)

ASSUME EngineAssumption ==
  /\ InstallJobs \subseteq KnownJobs
  /\ KnownJobs \subseteq Jobs
  /\ CreatedKeys \subseteq Nat
  /\ Reports \subseteq 0..Full
  /\ None \notin Workers \cup Jobs
  /\ MaxCrashes \in Nat
  /\ MaxFaults \in Nat

VARIABLES
  job,         (* the jobs table: job[j] is the row of j                   *)
  log,         (* log[j]: types of the final events of j in event_log      *)
  starts,      (* starts[j]: times a handler was entered for j (history)   *)
  engine,      (* "recovering", "running", "stopping" or "dead"            *)
  wake,        (* tokens in the wake channel, which has room for one       *)
  active,      (* Service.active: the worker whose cancel func is filed    *)
  pc,          (* pc[w]: where worker w is in worker/runOne                *)
  wjob,        (* wjob[w]: the job w claimed                               *)
  outcome,     (* outcome[w]: what the handler returned to w               *)
  ctxDone,     (* ctxDone[w]: the context of w's handler is cancelled      *)
  submit,      (* submit[j]: where the Submit call of j is                 *)
  cpc, cjob,   (* where each Cancel call is, and its job                   *)
  crashes, faults

db      == <<job, log, starts>>
worker  == <<pc, wjob, outcome, ctxDone>>
callers == <<cpc, cjob>>
vars == <<db, engine, wake, active, worker, submit, callers, crashes, faults>>

-----------------------------------------------------------------------------
(* Rows and the statements that update them (internal/state/jobs.go).      *)

Terminal == {"cancelled", "succeeded", "failed"}
Live     == {"running", "cancel_requested"}
Statuses == {"none", "queued", "deleted"} \cup Live \cup Terminal
Errors   == {"none", "handler_not_registered", "job_failed", "cancelled", "interrupted"}

Row == [status : Statuses, created : CreatedKeys \cup {0}, started : BOOLEAN,
        completed : BOOLEAN, cancelAt : BOOLEAN, error : Errors,
        progress : 0..Full]

NoRow == [status |-> "none", created |-> 0, started |-> FALSE,
          completed |-> FALSE, cancelAt |-> FALSE, error |-> "none", progress |-> 0]

Queued(k) == [NoRow EXCEPT !.status = "queued", !.created = k]

Claimed(r) == [r EXCEPT !.status = "running", !.started = TRUE]

(* Wrong variants, each of the definition after it: what that code would   *)
(* be with a plausible bug.  Every property is shown to fail on one.       *)
CompletedIfRunning(r) ==   \* WHERE status = 'running': forgets a cancelled one
  IF r.status = "running"
  THEN [r EXCEPT !.status = "succeeded", !.progress = Full, !.completed = TRUE]
  ELSE r

(* CompleteJob, FailJob and MarkJobCancelled touch no row that is already  *)
(* terminal or gone: their WHERE clause then matches nothing.              *)
Completed(r) ==
  IF r.status \in Live
  THEN [r EXCEPT !.status = "succeeded", !.progress = Full,
                 !.completed = TRUE, !.error = "none"]
  ELSE r

Failed(r, code) ==
  IF r.status \in Live
  THEN [r EXCEPT !.status = "failed", !.error = code, !.completed = TRUE]
  ELSE r

MarkedCancelled(r) ==
  IF r.status \in Live \cup {"queued"}
  THEN [r EXCEPT !.status = "cancelled", !.completed = TRUE]
  ELSE r

CancelRequestedMisspelt(r) ==
  IF r.status = "queued" THEN [r EXCEPT !.status = "canceled", !.cancelAt = TRUE, !.completed = TRUE]
                         ELSE [r EXCEPT !.status = "cancel_requested", !.cancelAt = TRUE]

CancelRequested(r) ==
  CASE r.status = "queued"  -> [r EXCEPT !.status = "cancelled", !.cancelAt = TRUE, !.completed = TRUE]
    [] r.status = "running" -> [r EXCEPT !.status = "cancel_requested", !.cancelAt = TRUE]
    [] OTHER -> r

RecoveredWithStart(j, r) ==       \* started_at kept on a replayed row
  CASE r.status = "cancel_requested" ->
         [r EXCEPT !.status = "cancelled", !.error = "cancelled", !.completed = TRUE]
    [] r.status = "running" /\ j \in InstallJobs -> [r EXCEPT !.status = "queued"]
    [] r.status = "running" /\ j \notin InstallJobs ->
         [r EXCEPT !.status = "failed", !.error = "interrupted", !.completed = TRUE]
    [] OTHER -> r

RecoveredByReplay(j, r) ==        \* every interrupted job is queued again
  CASE r.status = "cancel_requested" ->
         [r EXCEPT !.status = "cancelled", !.error = "cancelled", !.completed = TRUE]
    [] r.status = "running" -> [r EXCEPT !.status = "queued", !.started = FALSE]
    [] OTHER -> r

Recovered(j, r) ==
  CASE r.status = "cancel_requested" ->
         [r EXCEPT !.status = "cancelled", !.error = "cancelled", !.completed = TRUE]
    [] r.status = "running" /\ j \in InstallJobs ->
         [r EXCEPT !.status = "queued", !.error = "none", !.completed = FALSE, !.started = FALSE]
    [] r.status = "running" /\ j \notin InstallJobs ->
         [r EXCEPT !.status = "failed", !.error = "interrupted", !.completed = TRUE]
    [] OTHER -> r

NextUnfinished(j) ==
  /\ job[j].status \in {"queued", "running"}
  /\ \A k \in Jobs : job[k].status = "queued" => job[j].created <= job[k].created

(* ORDER BY created_at ASC LIMIT 1: the order is that of the stored text.  *)
NextQueued(j) ==
  /\ job[j].status = "queued"
  /\ \A k \in Jobs : job[k].status = "queued" => job[j].created <= job[k].created

(* The events that announce an outcome.  job.queued, job.started,          *)
(* job.cancel_requested and job.progress are published too; no property    *)
(* tells one history of them from another, so the log leaves them out.     *)
EventTypes == {"job.cancelled", "job.failed", "job.succeeded"}

(* event_log.job_id references jobs(id): with the row gone the insert      *)
(* fails, Publish returns the error and emit drops it.                     *)
Logged(j, type) ==
  IF job[j].status = "deleted" THEN log ELSE [log EXCEPT ![j] = @ \cup {type}]

(* A store call that fails, its context being cancelled by a client that   *)
(* left included.  The engine ignores the error of most of its writes.     *)
Fault   == faults < MaxFaults /\ faults' = faults + 1
NoFault == UNCHANGED faults

Stored(j, r) == job' = [job EXCEPT ![j] = r] /\ NoFault
Store(j, r)  == Stored(j, r) \/ (UNCHANGED job /\ Fault)
Emit(j, type) == \/ log' = Logged(j, type) /\ NoFault
                 \/ UNCHANGED log /\ Fault

-----------------------------------------------------------------------------
Init ==
  /\ job = [j \in Jobs |-> NoRow]
  /\ log = [j \in Jobs |-> {}]
  /\ starts = [j \in Jobs |-> 0]
  /\ engine = "recovering"
  /\ wake = 0
  /\ active = [j \in Jobs |-> None]
  /\ pc = [w \in Workers |-> "looking"]
  /\ wjob = [w \in Workers |-> None]
  /\ outcome = [w \in Workers |-> "none"]
  /\ ctxDone = [w \in Workers |-> FALSE]
  /\ submit = [j \in Jobs |-> "new"]
  /\ cpc = [c \in Callers |-> "idle"]
  /\ cjob = [c \in Callers |-> None]
  /\ crashes = 0 /\ faults = 0

(* The HTTP server is shut down before the engine's context is cancelled.  *)
ApiUp == engine # "stopping"

-----------------------------------------------------------------------------
(* Submit, on the goroutine of the request or of the module API.           *)

SubmitStep(j, from, to) == submit[j] = from /\ submit' = [submit EXCEPT ![j] = to]

CreateJob(j) ==
  /\ ApiUp
  /\ SubmitStep(j, "new", "created")
  /\ \E k \in CreatedKeys : job' = [job EXCEPT ![j] = Queued(k)]
  /\ UNCHANGED <<log, starts, engine, wake, active, worker, callers, crashes, faults>>

(* emit(job.queued), then signal: the token arrives some time after the    *)
(* row, or never when the process dies first.                              *)
Signal(j) ==
  /\ SubmitStep(j, "created", "done")
  /\ wake' = 1
  /\ UNCHANGED <<db, engine, active, worker, callers, crashes, faults>>

-----------------------------------------------------------------------------
(* Cancel, on the goroutine of an HTTP request.                            *)

CallerStep(c, from, to) == cpc[c] = from /\ cpc' = [cpc EXCEPT ![c] = to]

RequestJobCancel(c, j) ==
  /\ ApiUp
  /\ CallerStep(c, "idle", "reading")
  /\ cjob' = [cjob EXCEPT ![c] = j]
  /\ job[j].status \in Live \cup {"queued"}
  /\ job' = [job EXCEPT ![j] = CancelRequested(@)]
  /\ UNCHANGED <<log, starts, engine, wake, active, worker, submit, crashes, faults>>

CallerDone(c) == cjob' = [cjob EXCEPT ![c] = None]

(* RequestJobCancel returns what it reads after its commit; when the row   *)
(* is gone or the read fails Cancel returns early.                         *)
ReadCancelled(c) ==
  /\ \/ /\ CallerStep(c, "reading", "signalling")
        /\ job[cjob[c]].status # "deleted"
        /\ UNCHANGED cjob /\ NoFault
     \/ /\ CallerStep(c, "reading", "idle")
        /\ CallerDone(c)
        /\ \/ job[cjob[c]].status = "deleted" /\ NoFault
           \/ Fault
  /\ UNCHANGED <<db, engine, wake, active, worker, submit, crashes>>

(* A cancel function read from active may be called after its handler has  *)
(* returned: it then cancels a context nobody uses, so one step is enough. *)
CancelHandler(c) ==
  /\ CallerStep(c, "signalling", "answering")
  /\ ctxDone' = [w \in Workers |-> ctxDone[w] \/ active[cjob[c]] = w]
  /\ UNCHANGED <<db, engine, wake, active, pc, wjob, outcome, submit, cjob, crashes, faults>>

(* emit(job.cancel_requested), then the answer.                            *)
AnswerCancel(c) ==
  /\ CallerStep(c, "answering", "idle")
  /\ CallerDone(c)
  /\ UNCHANGED <<db, engine, wake, active, worker, submit, crashes, faults>>

(* DELETE /api/v1/jobs                                                     *)
ClearTerminalJobs ==
  /\ ApiUp
  /\ job' = [j \in Jobs |-> IF job[j].status \in Terminal
                            THEN [NoRow EXCEPT !.status = "deleted"] ELSE job[j]]
  /\ UNCHANGED <<log, starts, engine, wake, active, worker, submit, callers, crashes, faults>>

-----------------------------------------------------------------------------
(* Run, worker and runOne.                                                 *)

RecoverInterruptedJobs ==
  /\ engine = "recovering"
  /\ \/ /\ job' = [j \in Jobs |-> Recovered(j, job[j])]
        /\ engine' = "running" /\ NoFault
     \/ /\ UNCHANGED job /\ Fault
        /\ engine' = "dead"
  /\ UNCHANGED <<log, starts, wake, active, worker, submit, callers, crashes>>

WorkerStep(w, from, to) == pc[w] = from /\ pc' = [pc EXCEPT ![w] = to]

ClaimNextJob(w) ==
  /\ engine = "running"
  /\ WorkerStep(w, "looking", "claimed")
  /\ \E j \in Jobs :
       /\ NextQueued(j)
       /\ job' = [job EXCEPT ![j] = Claimed(@)]
       /\ wjob' = [wjob EXCEPT ![w] = j]
  /\ UNCHANGED <<log, starts, engine, wake, active, outcome, ctxDone, submit, callers, crashes, faults>>

NoJob(w) ==
  /\ engine = "running"
  /\ WorkerStep(w, "looking", "waiting")
  /\ \A j \in Jobs : job[j].status # "queued"
  /\ UNCHANGED <<db, engine, wake, active, wjob, outcome, ctxDone, submit, callers, crashes, faults>>

Wake(w) ==
  /\ wake = 1
  /\ WorkerStep(w, "waiting", "looking")
  /\ wake' = 0
  /\ UNCHANGED <<db, engine, active, wjob, outcome, ctxDone, submit, callers, crashes, faults>>

NoTick(w) == FALSE   \* a worker without its ticker

Tick(w) ==
  /\ engine = "running"
  /\ WorkerStep(w, "waiting", "looking")
  /\ UNCHANGED <<db, engine, wake, active, wjob, outcome, ctxDone, submit, callers, crashes, faults>>

(* Writes and events under the engine's own context fail while it stops.   *)
Stopped == engine = "stopping" /\ NoFault

(* ClaimNextJob reads the row back after its commit, with the engine's     *)
(* context.  When that read fails runOne returns false: the job stays      *)
(* running and no worker has it.                                           *)
ReadClaimed(w) ==
  /\ \/ /\ engine = "running" /\ NoFault
        /\ WorkerStep(w, "claimed", IF wjob[w] \in KnownJobs THEN "known" ELSE "unknown")
        /\ UNCHANGED wjob
     \/ /\ Stopped \/ Fault
        /\ WorkerStep(w, "claimed", "waiting")
        /\ wjob' = [wjob EXCEPT ![w] = None]
  /\ UNCHANGED <<db, engine, wake, active, outcome, ctxDone, submit, callers, crashes>>

FailUnknown(w) ==
  /\ WorkerStep(w, "unknown", "refusing")
  /\ \/ engine = "running" /\ Store(wjob[w], Failed(job[wjob[w]], "handler_not_registered"))
     \/ Stopped /\ UNCHANGED job
  /\ UNCHANGED <<log, starts, engine, wake, active, wjob, outcome, ctxDone, submit, callers, crashes>>

EmitRefused(w) ==
  /\ WorkerStep(w, "refusing", "looking")
  /\ \/ engine = "running" /\ Emit(wjob[w], "job.failed")
     \/ Stopped /\ UNCHANGED log
  /\ wjob' = [wjob EXCEPT ![w] = None]
  /\ UNCHANGED <<job, starts, engine, wake, active, outcome, ctxDone, submit, callers, crashes>>

Activate(w) ==
  /\ WorkerStep(w, "known", "starting")
  /\ active' = [active EXCEPT ![wjob[w]] = w]
  /\ ctxDone' = [ctxDone EXCEPT ![w] = engine = "stopping"]
  /\ UNCHANGED <<db, engine, wake, wjob, outcome, submit, callers, crashes, faults>>

(* emit(job.started), then the call of the handler.                        *)
EnterHandler(w) ==
  /\ WorkerStep(w, "starting", "handling")
  /\ starts' = [starts EXCEPT ![wjob[w]] = @ + 1]
  /\ UNCHANGED <<job, log, engine, wake, active, wjob, outcome, ctxDone, submit, callers, crashes, faults>>

(* The handler may report progress as often as it likes; a report that the *)
(* store refuses changes nothing.                                          *)
Progress(w, p) ==
  /\ pc[w] = "handling" /\ ~ctxDone[w]
  /\ job[wjob[w]].status \in Live
  /\ job' = [job EXCEPT ![wjob[w]].progress = p]
  /\ UNCHANGED <<log, starts, engine, wake, active, worker, submit, callers, crashes, faults>>

ReturnFromHandler(w) ==
  /\ WorkerStep(w, "handling", "returned")
  /\ \E o \in {"ok", "error", "canceled"} :
       /\ o = "canceled" => ctxDone[w]
       /\ outcome' = [outcome EXCEPT ![w] = o]
  /\ UNCHANGED <<db, engine, wake, active, wjob, ctxDone, submit, callers, crashes, faults>>

Deactivate(w) ==
  /\ WorkerStep(w, "returned", "reading")
  /\ active' = [active EXCEPT ![wjob[w]] = None]
  /\ ctxDone' = [ctxDone EXCEPT ![w] = FALSE]
  /\ UNCHANGED <<db, engine, wake, wjob, outcome, submit, callers, crashes, faults>>

ReadCurrentOrCancel(w) ==     \* a failed read counts as "cancelled"
  /\ \/ /\ WorkerStep(w, "reading", "cancelling")
        /\ \/ job[wjob[w]].status = "cancel_requested" /\ NoFault
           \/ Fault
     \/ /\ WorkerStep(w, "reading", "recording")
        /\ job[wjob[w]].status # "cancel_requested" /\ NoFault
  /\ UNCHANGED <<db, engine, wake, active, wjob, outcome, ctxDone, submit, callers, crashes>>

(* From here on the context is WithoutCancel(ctx): stopping does not fail  *)
(* the writes, and a read that fails counts as "not cancelled".            *)
ReadCurrent(w) ==
  /\ \/ /\ WorkerStep(w, "reading", "cancelling") /\ NoFault
        /\ job[wjob[w]].status = "cancel_requested"
     \/ /\ WorkerStep(w, "reading", "recording")
        /\ \/ job[wjob[w]].status # "cancel_requested" /\ NoFault
           \/ Fault
  /\ UNCHANGED <<db, engine, wake, active, wjob, outcome, ctxDone, submit, callers, crashes>>

MarkJobCancelled(w) ==
  /\ WorkerStep(w, "cancelling", "announcing")
  /\ Store(wjob[w], MarkedCancelled(job[wjob[w]]))
  /\ outcome' = [outcome EXCEPT ![w] = "marked"]
  /\ UNCHANGED <<log, starts, engine, wake, active, wjob, ctxDone, submit, callers, crashes>>

RecordOutcome(w) ==
  /\ WorkerStep(w, "recording", "announcing")
  /\ Store(wjob[w],
           CASE outcome[w] = "ok"       -> Completed(job[wjob[w]])
             [] outcome[w] = "error"    -> Failed(job[wjob[w]], "job_failed")
             [] outcome[w] = "canceled" -> Failed(job[wjob[w]], "cancelled"))
  /\ UNCHANGED <<log, starts, engine, wake, active, wjob, outcome, ctxDone, submit, callers, crashes>>

EmitOutcome(w) ==
  /\ WorkerStep(w, "announcing", "looking")
  /\ Emit(wjob[w], CASE outcome[w] = "ok"     -> "job.succeeded"
                     [] outcome[w] = "marked" -> "job.cancelled"
                     [] OTHER                 -> "job.failed")
  /\ wjob' = [wjob EXCEPT ![w] = None]
  /\ outcome' = [outcome EXCEPT ![w] = "none"]
  /\ UNCHANGED <<job, starts, engine, wake, active, ctxDone, submit, callers, crashes>>

-----------------------------------------------------------------------------
(* SIGTERM: the API has drained, then jobCancel cancels the engine's       *)
(* context and with it every handler's.  main does not wait for Run.       *)
Stop ==
  /\ engine \in {"running", "dead"}
  /\ crashes < MaxCrashes
  /\ \A j \in Jobs : submit[j] \in {"new", "done"}
  /\ \A c \in Callers : cpc[c] = "idle"
  /\ engine' = "stopping"
  /\ ctxDone' = [w \in Workers |-> ctxDone[w] \/ \E j \in Jobs : active[j] = w]
  /\ UNCHANGED <<db, wake, active, pc, wjob, outcome, submit, callers, crashes, faults>>

(* The process is gone, and started again: what was in memory is lost.     *)
NewProcess ==
  /\ crashes < MaxCrashes
  /\ crashes' = crashes + 1
  /\ engine' = "recovering"
  /\ wake' = 0
  /\ active' = [j \in Jobs |-> None]
  /\ pc' = [w \in Workers |-> "looking"]
  /\ wjob' = [w \in Workers |-> None]
  /\ outcome' = [w \in Workers |-> "none"]
  /\ ctxDone' = [w \in Workers |-> FALSE]
  /\ submit' = [j \in Jobs |-> IF submit[j] = "new" THEN "new" ELSE "done"]
  /\ cpc' = [c \in Callers |-> "idle"]
  /\ cjob' = [c \in Callers |-> None]
  /\ UNCHANGED <<db, faults>>

Exit  == engine = "stopping" /\ NewProcess
Crash == engine # "stopping" /\ NewProcess

-----------------------------------------------------------------------------
SubmitNext(j) == CreateJob(j) \/ Signal(j)

CallerNext(c) == ReadCancelled(c) \/ CancelHandler(c) \/ AnswerCancel(c)

Looking(w) == ClaimNextJob(w) \/ NoJob(w) \/ Wake(w) \/ Tick(w)

Settling(w) ==
  \/ ReadClaimed(w) \/ FailUnknown(w) \/ EmitRefused(w)
  \/ Activate(w) \/ EnterHandler(w) \/ Deactivate(w)
  \/ ReadCurrent(w) \/ MarkJobCancelled(w) \/ RecordOutcome(w) \/ EmitOutcome(w)

Handling(w) == ReturnFromHandler(w) \/ \E p \in Reports : Progress(w, p)

Next ==
  \/ \E j \in Jobs : SubmitNext(j)
  \/ \E c \in Callers : CallerNext(c) \/ \E j \in Jobs : RequestJobCancel(c, j)
  \/ \E w \in Workers : Looking(w) \/ Settling(w) \/ Handling(w)
  \/ RecoverInterruptedJobs
  \/ ClearTerminalJobs
  \/ Stop \/ Exit \/ Crash

Spec == Init /\ [][Next]_vars

(* The Go runtime runs every goroutine that can run; the ticker fires; a   *)
(* process that stops exits and is started again.  Nothing is assumed of   *)
(* the handlers, the clients and the crashes.                              *)
EngineFairness ==
  /\ \A w \in Workers : WF_vars(Looking(w)) /\ WF_vars(Settling(w))
  /\ WF_vars(RecoverInterruptedJobs)
  /\ WF_vars(Exit)

FairSpec == Spec /\ EngineFairness

(* ... and every handler returns.                                          *)
HandlersReturn == \A w \in Workers : WF_vars(ReturnFromHandler(w))

ReturningSpec == FairSpec /\ HandlersReturn

-----------------------------------------------------------------------------
(* Type invariant.                                                         *)
Owning == {"claimed", "known", "unknown", "refusing", "starting", "handling",
           "returned", "reading", "cancelling", "recording", "announcing"}
Idle   == {"looking", "waiting"}

TablesOK ==
  /\ job \in [Jobs -> Row]
  /\ log \in [Jobs -> SUBSET EventTypes]
  /\ starts \in [Jobs -> Nat]

ServiceOK ==
  /\ engine \in {"recovering", "running", "stopping", "dead"}
  /\ wake \in {0, 1}
  /\ active \in [Jobs -> Workers \cup {None}]

WorkersOK ==
  /\ pc \in [Workers -> Idle \cup Owning]
  /\ wjob \in [Workers -> Jobs \cup {None}]
  /\ outcome \in [Workers -> {"none", "ok", "error", "canceled", "marked"}]
  /\ ctxDone \in [Workers -> BOOLEAN]

RequestsOK ==
  /\ submit \in [Jobs -> {"new", "created", "done"}]
  /\ cpc \in [Callers -> {"idle", "reading", "signalling", "answering"}]
  /\ cjob \in [Callers -> Jobs \cup {None}]

BoundsOK == crashes \in 0..MaxCrashes /\ faults \in 0..MaxFaults

TypeOK == TablesOK /\ ServiceOK /\ WorkersOK /\ RequestsOK /\ BoundsOK

Consistent(r) ==
  /\ r.completed <=> r.status \in Terminal
  /\ r.status = "queued" => ~r.started /\ ~r.cancelAt /\ r.error = "none"
  /\ r.status = "running" => r.started /\ ~r.cancelAt /\ r.error = "none"
  /\ r.status = "cancel_requested" => r.started /\ r.cancelAt
  /\ r.status = "cancelled" => r.cancelAt
  /\ r.status = "failed" => r.started /\ r.error # "none"
  /\ r.status = "succeeded" => r.started /\ r.error = "none" /\ r.progress = Full

(* The columns of a row tell one story, whoever wrote them last - a        *)
(* worker, an HTTP cancellation or the recovery after a crash: it is       *)
(* completed exactly when its status is terminal, a queued row carries no  *)
(* trace of an earlier run, an error code is there exactly when it failed  *)
(* or was cancelled by a restart, and success is always full progress.     *)
(* Every variable keeps its type besides.                                  *)
RowsAgree == \A j \in Jobs : Consistent(job[j])
RowConsistent == TypeOK /\ RowsAgree

(* Two workers never hold the same job, and the cancel function filed      *)
(* under a job is that of the worker that holds it.                        *)
OneWorkerPerJob ==
  /\ \A v, w \in Workers : v # w /\ wjob[v] # None => wjob[v] # wjob[w]
  /\ \A j \in Jobs : active[j] # None => wjob[active[j]] = j

(* A final event in the durable history tells the status the row has: the  *)
(* engine ignores the error of the write before it, so this holds only     *)
(* while none has failed.                                                  *)
FinalEventIsTrue ==
  faults = 0 => \A j \in Jobs :
    /\ "job.succeeded" \in log[j] => job[j].status \in {"succeeded", "deleted"}
    /\ "job.failed" \in log[j]    => job[j].status \in {"failed", "deleted"}
    /\ "job.cancelled" \in log[j] => job[j].status \in {"cancelled", "deleted"}

(* The handler of a job that is not a module installation is entered at    *)
(* most once, however often the process dies: interrupted work with        *)
(* unknown effects is not replayed.                                        *)
StartedAtMostOnce == \A j \in Jobs \ InstallJobs : starts[j] <= 1

(* A finished row is never rewritten - not by a late progress report, a    *)
(* worker that answers after a cancellation, nor by recovery - it can only *)
(* be cleared.                                                             *)
TerminalIsFinal ==
  [][\A j \in Jobs : job[j].status \in Terminal =>
        job'[j] = job[j] \/ job'[j].status = "deleted"]_vars

(* The engine implements the life cycle the API documents.                 *)
Lifecycle == INSTANCE JobLifecycle WITH status <- [j \in Jobs |-> job[j].status]

ImplementsLifecycle == Lifecycle!Spec

(* While handlers return, the engine comes to rest again and again: no     *)
(* accepted job waits for ever, though its wake-up token may be lost, or   *)
(* spent on another job or on a claim whose read failed, and none is left  *)
(* unfinished.  Only a store call that failed excuses a job that stays     *)
(* running, or an engine that never started.  (A job is submitted once, so *)
(* this is the same as every job finishing.)                               *)
Settled(j) ==
  \/ job[j].status \notin Live \cup {"queued"}
  \/ faults > 0 /\ (job[j].status \in Live \/ engine = "dead")

JobsFinish == []<>(\A j \in Jobs : Settled(j))

(* docs/api/jobs-events-v1.md:37 "handlers receive context cancellation":  *)
(* once the cancellation of a running job has been answered, its handler   *)
(* does not keep running with a context that is not cancelled.             *)
CancelReachesHandler ==
  \A w \in Workers, c \in Callers :
    pc[w] = "handling" /\ cpc[c] = "answering" /\ cjob[c] = wjob[w] => ctxDone[w]
=============================================================================
