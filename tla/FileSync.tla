------------------------------- MODULE FileSync -------------------------------
(***************************************************************************)
(* The Windows client over the files of Core: one local file that a        *)
(* scheduled synchronisation (SyncOnce under watchSyncProfiles) or a       *)
(* persistent queue (Queue.run) copies to Target by CopyTransfer.          *)
(*                                                                         *)
(* Requests travel over wire.  An answer may be lost, and a request the    *)
(* client has given up may still be served afterwards.  What the client    *)
(* only reads is one step, which may fail as well.                         *)
(***************************************************************************)
EXTENDS FileData

CONSTANTS
  Target,          (* the destination                                      *)
  Ways,            (* what copies, conflict policy and --restart-stale     *)
  Tries,           (* UploadOptions.Retries                                *)
  MaxEdits,        (* bound: changes of the file and retries by the user    *)
  MaxFaults        (* bound: lost answers, failed reads, deaths of the client *)

ASSUME SyncAssumption ==
  /\ Target \in Paths /\ {"agent", "late"} \subseteq Callers /\ Versions \ Outsiders # {}
  /\ Ways \subseteq [driver : {"sync", "queue"}, policy : {"stop", "skip", "replace-to-trash"},
                    restart : BOOLEAN]
  /\ {MaxEdits, MaxFaults} \subseteq Nat /\ Tries \in Nat \ {0}

VARIABLES
  way,         (* driver, policy and --restart-stale of this client        *)
  source,      (* the version the local file holds                         *)
  agent,       (* where the client is: at, its snapshot, session and offset *)
  wire,        (* the request under way                                    *)
  late,        (* a request the client gave up                             *)
  row,         (* status of the transfer in the queue file                 *)
  told,        (* what the last run reported (history)                     *)
  seen,        (* contents Target has had in this run (history)            *)
  edits, faults

client == <<way, source, agent, wire, late, row, told, edits, faults>>
vars == <<fileVars, client, seen>>

Mine    == Versions \ Outsiders
Resting == [at |-> "rest", snap |-> None, id |-> None, sent |-> 0, block |-> None,
            tries |-> 0, lost |-> FALSE]
Silent  == [do |-> "none", id |-> None, of |-> None, at |-> 0]
Asked(do, id, of, at) == [do |-> do, id |-> id, of |-> of, at |-> at]
Unsaid  == [what |-> "none", of |-> None]

SyncInit ==
  /\ Init
  /\ way \in Ways
  /\ source = CHOOSE v \in Mine : TRUE (* one is as good as another *)
  /\ agent = Resting /\ wire = Silent /\ late = Silent
  /\ row = [status |-> IF way.driver = "queue" THEN "pending" ELSE "none", snap |-> source]
  /\ told = Unsaid /\ seen = {} /\ edits = 0 /\ faults = 0

-----------------------------------------------------------------------------
(* How a step of the client ends: it goes on, asks Core, or the run ends.  *)

Stay == UNCHANGED <<fileVars, way, source, late, edits, faults, seen>>
Become(a) == agent' = a /\ wire' = Silent /\ UNCHANGED <<row, told>> /\ Stay
Turn(at) == Become([agent EXCEPT !.at = at])
Send(at, request) ==
  /\ agent' = [agent EXCEPT !.at = at] /\ wire' = request
  /\ UNCHANGED <<row, told>> /\ Stay
Outcome(what) == CASE what = "failed"  -> "failed"
                   [] what = "pending" -> "pending"
                   [] OTHER            -> "completed"
Report(what) ==
  /\ agent' = Resting /\ wire' = Silent /\ told' = [what |-> what, of |-> agent.snap]
  /\ row' = IF way.driver = "queue" THEN [row EXCEPT !.status = Outcome(what)] ELSE row
  /\ Stay
(* A queue leaves a transfer that was cut off pending, any other failed.   *)
RunFails(lost) ==
  \/ Report("failed")
  \/ way.driver = "queue" /\ lost /\ Report("pending")
Hear(why) == wire.do = "served" /\ said["agent"] = why
HearNo == wire.do = "served" /\ said["agent"] \notin {"none", "ok", "lost"}
HearNothing == wire.do = "cut" \/ Hear("lost")
(* UploadFile returns an error: CopyTransfer looks whether it is done.     *)
UploadFails(lost) == Become([agent EXCEPT !.at = "recheck", !.lost = lost])

-----------------------------------------------------------------------------
(* A run begins: a synchronisation with the file as it is, a queue with    *)
(* the snapshot taken when the job was added.                              *)

Start(at, snap) == agent.at = "rest" /\ agent' = [Resting EXCEPT !.at = at, !.snap = snap]
Begun == told' = Unsaid /\ seen' = {tree[Target]}
(* A bug: the plan of the last run is used again.                          *)
StartSyncStale ==
  /\ way.driver = "sync" /\ Start("inspect", IF told.of = None THEN source ELSE told.of) /\ Begun
  /\ UNCHANGED <<fileVars, way, source, wire, late, row, edits, faults>>
StartSync ==
  /\ way.driver = "sync" /\ Start("inspect", source) /\ Begun
  /\ UNCHANGED <<fileVars, way, source, wire, late, row, edits, faults>>
StartTransfer ==
  /\ row.status = "pending" /\ Start("validate", row.snap) /\ Begun
  /\ row' = [row EXCEPT !.status = "running"]
  /\ UNCHANGED <<fileVars, way, source, wire, late, edits, faults>>
RetryJob ==
  /\ row.status = "failed" /\ row' = [row EXCEPT !.status = "pending"]
  /\ edits < MaxEdits /\ edits' = edits + 1
  /\ UNCHANGED <<fileVars, way, source, agent, wire, late, told, seen, faults>>

(* SyncOnce compares and follows the policy.                               *)
Same == tree[Target] = Whole(agent.snap)
Inspect ==
  /\ agent.at = "inspect"
  /\ \/ Same /\ Report("unchanged")
     \/ tree[Target] = None /\ Turn("validate")
     \/ /\ tree[Target] # None /\ ~Same
        /\ \/ way.policy = "stop" /\ Report("failed")
           \/ way.policy = "skip" /\ Report("skipped")
           \/ way.policy = "replace-to-trash" /\ Send("trashing", Asked("trash", None, None, 0))
Trashing ==
  /\ agent.at = "trashing"
  /\ \/ Hear("ok") /\ Turn("validate")
     \/ HearNo /\ RunFails(FALSE)
     \/ HearNothing /\ RunFails(TRUE)

(* CopyTransfer: the snapshot still stands and nothing else is there.      *)
Validate ==
  /\ agent.at = "validate"
  /\ IF source = agent.snap THEN Turn("verify") ELSE RunFails(FALSE)
Verify ==
  /\ agent.at = "verify"
  /\ \/ Same /\ Report("copied")
     \/ tree[Target] = None /\ Turn("list")
     \/ tree[Target] # None /\ ~Same /\ RunFails(FALSE)

(* UploadFile: an unfinished upload of this very file is resumed, another  *)
(* one is cancelled when the user allowed it.                              *)
Unfinished == {u \in Sessions : meta[u].path = Target}
(* A bug: any unfinished upload of the target is continued.                *)
ResumableBlindly(u) == TRUE
Resumable(u) ==
  /\ meta[u].of = agent.snap
  /\ meta[u].got = SubSeq(Whole(agent.snap), 1, Len(meta[u].got))
ListUploads ==
  /\ agent.at = "list"
  /\ \/ source # agent.snap /\ UploadFails(FALSE)
     \/ source = agent.snap /\ Unfinished = {} /\ Turn("create")
     \/ /\ source = agent.snap
        /\ \E u \in Unfinished :
             IF Resumable(u)
             THEN Become([agent EXCEPT !.at = "send", !.id = u, !.sent = Len(meta[u].got)])
             ELSE \/ way.restart /\ Send("cancelling", Asked("cancel", u, None, 0))
                  \/ ~way.restart /\ UploadFails(FALSE)
Cancelling ==
  /\ agent.at = "cancelling"
  /\ \/ Hear("ok") /\ Turn("create")
     \/ HearNo /\ UploadFails(FALSE)
     \/ HearNothing /\ UploadFails(TRUE)
CreateSession == agent.at = "create" /\ Send("creating", Asked("create", None, agent.snap, 0))
Creating ==
  /\ agent.at = "creating"
  /\ \/ Hear("ok") /\ Become([agent EXCEPT !.at = "send", !.id = wire.id, !.sent = 0])
     \/ HearNo /\ UploadFails(FALSE)
     \/ HearNothing /\ UploadFails(TRUE)

(* Chunks are read from the file as it is now.                             *)
SendChunk ==
  /\ agent.at = "send" /\ agent.sent < Size[agent.snap]
  /\ IF agent.sent < Size[source]
     THEN /\ agent' = [agent EXCEPT !.at = "sending", !.block = <<source, agent.sent + 1>>, !.tries = 1]
          /\ wire' = Asked("chunk", agent.id, <<source, agent.sent + 1>>, agent.sent)
          /\ UNCHANGED <<row, told>> /\ Stay
     ELSE UploadFails(FALSE)
Received == Become([agent EXCEPT !.at = "send", !.sent = @ + 1])
(* A conflict may be the answer to the second copy of a chunk.             *)
Refreshed == Listed(agent.id) /\ Len(meta[agent.id].got) = agent.sent + 1
(* retry asks again after a lost answer and after a failure of the server: *)
(* one that has no room (507), or a call of Core that failed (5xx or 400). *)
Retried == HearNothing \/ Hear("full") \/ Hear("failed")
Sending ==
  /\ agent.at = "sending"
  /\ \/ Hear("ok") /\ Received
     \/ Hear("conflict") /\ Refreshed /\ Received
     \/ Hear("conflict") /\ ~Refreshed /\ UploadFails(FALSE)
     \/ /\ HearNo /\ ~Hear("conflict") /\ (Hear("full") => agent.tries = Tries)
        /\ UploadFails(FALSE)
     \/ Retried /\ agent.tries < Tries /\ Become([agent EXCEPT !.at = "resend", !.tries = @ + 1])
     \/ HearNothing /\ agent.tries = Tries /\ UploadFails(TRUE)
SendAgain ==
  /\ agent.at = "resend"
  /\ Send("sending", Asked("chunk", agent.id, agent.block, agent.sent))
FinishUpload ==
  /\ agent.at = "send" /\ agent.sent = Size[agent.snap]
  /\ IF source = agent.snap THEN Send("finishing", Asked("complete", agent.id, None, 0))
                            ELSE UploadFails(FALSE)
Finishing ==
  /\ agent.at = "finishing"
  /\ \/ Hear("ok") /\ Report("copied")
     \/ HearNo /\ UploadFails(FALSE)
     \/ HearNothing /\ UploadFails(TRUE)
(* The upload may have been committed before its answer was lost.          *)
Recheck ==
  /\ agent.at = "recheck"
  /\ \/ Same /\ Report("copied")
     \/ ~Same /\ RunFails(agent.lost)

-----------------------------------------------------------------------------
(* Core serves what is asked, also what the client has given up.           *)

(* The ids are random: unused ones of which nobody has heard yet, and which *)
(* of them is taken makes no difference.                                   *)
FreshUploads == {u \in Uploads : Unused(u)} \ {agent.id, wire.id, late.id}
FreshTrash   == {t \in TrashIds : item[t] = None /\ origin[t] = None}
SomeUpload == CHOOSE u \in FreshUploads : TRUE
SomeTrash  == CHOOSE t \in FreshTrash : TRUE
Serves(c, r) ==
  \/ r.do = "trash"    /\ FreshTrash # {} /\ Trash(c, Target, SomeTrash)
  \/ r.do = "create"   /\ FreshUploads # {} /\ CreateUpload(c, Target, r.of, SomeUpload, TRUE)
  \/ r.do = "chunk"    /\ AppendUploadChunk(c, r.id, r.at, r.of)
  \/ r.do = "complete" /\ CompleteUpload(c, r.id)
  \/ r.do = "cancel"   /\ CancelUpload(c, r.id)
Named(r) == IF r.do = "create" THEN SomeUpload ELSE r.id
ServeWire ==
  /\ Serves("agent", wire) /\ wire' = [Silent EXCEPT !.do = "served", !.id = Named(wire)]
  /\ UNCHANGED <<way, source, agent, late, row, told, seen, edits, faults, requests>>
ServeLate ==
  /\ Serves("late", late) /\ late' = Silent
  /\ UNCHANGED <<way, source, agent, wire, row, told, seen, edits, faults, requests>>
CoreWorks == CoreStep /\ seen' = seen \cup {tree'[Target]} /\ UNCHANGED client
Others    == Outside /\ seen' = seen \cup {tree'[Target]} /\ UNCHANGED client

-----------------------------------------------------------------------------
(* The network, the user and the client's process.                         *)

Abandoned == IF late = Silent /\ wire.do \notin {"none", "served", "cut"} THEN {wire, Silent} ELSE {late}
Fault == faults < MaxFaults /\ faults' = faults + 1
TimeOut ==
  /\ wire.do \notin {"none", "cut"} /\ Fault
  /\ late' \in Abandoned /\ wire' = [Silent EXCEPT !.do = "cut"]
  /\ UNCHANGED <<fileVars, way, source, agent, row, told, seen, edits>>
ReadFails ==
  /\ Fault /\ wire' = Silent
  /\ \/ /\ agent.at \in {"inspect", "verify", "recheck"}
        /\ agent' = Resting /\ told' = [what |-> "failed", of |-> agent.snap]
        /\ row' = IF way.driver = "queue" THEN [row EXCEPT !.status = "failed"] ELSE row
     \/ agent.at = "list" /\ agent' = [agent EXCEPT !.at = "recheck"] /\ UNCHANGED <<row, told>>
  /\ UNCHANGED <<fileVars, way, source, late, seen, edits>>
(* A bug: a transfer that was running stays so.                            *)
ClientDiesRunning ==
  /\ agent.at # "rest" /\ Fault
  /\ agent' = Resting /\ wire' = Silent /\ late' \in Abandoned
  /\ UNCHANGED <<fileVars, way, source, row, told, seen, edits>>
(* OpenQueue makes pending again what was running.                         *)
ClientDies ==
  /\ agent.at # "rest" /\ Fault
  /\ agent' = Resting /\ wire' = Silent /\ late' \in Abandoned
  /\ row' = IF row.status = "running" THEN [row EXCEPT !.status = "pending"] ELSE row
  /\ UNCHANGED <<fileVars, way, source, told, seen, edits>>
EditSource(v) ==
  /\ edits < MaxEdits /\ edits' = edits + 1 /\ v # source /\ source' = v
  /\ UNCHANGED <<fileVars, way, agent, wire, late, row, told, seen, faults>>

Run ==
  \/ Inspect \/ Trashing \/ Validate \/ Verify \/ ListUploads \/ Cancelling
  \/ CreateSession \/ Creating \/ SendChunk \/ Sending \/ SendAgain
  \/ FinishUpload \/ Finishing \/ Recheck
SyncNext ==
  \/ Run \/ StartSync \/ StartTransfer \/ RetryJob
  \/ ServeWire \/ ServeLate \/ CoreWorks \/ Others
  \/ TimeOut \/ ReadFails \/ ClientDies
  \/ \E v \in Mine : EditSource(v)
SyncSpec == SyncInit /\ [][SyncNext]_vars

(* watchSyncProfiles goes on after a failed run, the user runs the queue   *)
(* again, a request under way is served and Core works on what it began.   *)
FairSpec ==
  /\ SyncSpec /\ WF_vars(Run) /\ WF_vars(StartSync) /\ WF_vars(StartTransfer)
  /\ WF_vars(ServeWire) /\ WF_vars(ServeLate) /\ WF_vars(CoreWorks)

-----------------------------------------------------------------------------
(* Properties                                                              *)

(* The variables have their types, and a transfer is recorded as running   *)
(* only while a client works on it (OpenQueue, setTransfer).               *)
SyncTypeOK ==
  /\ way \in Ways /\ source \in Mine
  /\ agent.snap \in Mine \cup {None} /\ agent.id \in Uploads \cup {None}
  /\ agent.sent \in Nat /\ agent.tries \in 0..Tries
  /\ agent.id # None => agent.sent <= Size[agent.snap]
  /\ row.snap \in Mine /\ row.status \in {"none", "pending", "running", "completed", "failed"}
  /\ row.status = "running" => way.driver = "queue" /\ agent.at # "rest"
  /\ agent.at # "rest" /\ way.driver = "queue" => row.status = "running"

(* What a run reports as copied or unchanged, and a queue records as       *)
(* completed, was at the target during that run, whole and as planned:     *)
(* also when answers were lost, chunks came twice or late, or the file was *)
(* edited while it was sent.                                               *)
CopiedIsThere ==
  /\ told.what \in {"copied", "unchanged"} => Whole(told.of) \in seen
  /\ row.status = "completed" => Whole(row.snap) \in seen

(* The client never replaces what somebody else put at the target: it may  *)
(* only go to the trash, and only when the profile says so.  The undoing   *)
(* of a failed trash covers what came meanwhile (see LossIsAsked).         *)
Foreign == tree[Target] \in {Whole(v) : v \in Outsiders}
ForeignIsKept ==
  [][Foreign /\ tree'[Target] # tree[Target] /\ intrusions' = intrusions =>
       \/ /\ way.driver = "sync" /\ way.policy = "replace-to-trash"
          /\ \E t \in TrashIds : item'[t] = tree[Target]
       \/ op.do = "trash" /\ Target \in intruded]_vars

(* A profile that may replace and restart, or one that nobody disturbs,    *)
(* brings the target to the last version of the file and keeps it there.   *)
Undisturbed == edits = 0 /\ intrusions = 0
May == way.policy = "replace-to-trash" /\ way.restart
Synced ==
  (way.driver = "sync" /\ (May \/ []Undisturbed)) => <>[](tree[Target] = Whole(source))

(* A queued transfer is not left pending or running forever.               *)
QueueSettles == way.driver = "queue" => []<>(row.status \in {"completed", "failed"})

(* A client neither reports what is not there nor replaces what is not its *)
(* own.                                                                    *)
CopyIsSafe == [](SyncTypeOK /\ CopiedIsThere) /\ ForeignIsKept
=============================================================================
