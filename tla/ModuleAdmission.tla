---------------------------- MODULE ModuleAdmission ---------------------------
(***************************************************************************)
(* How a change of a module gets from a browser to the registry:           *)
(* internal/api/module_runtime.go (one module job at a time), modules.go,  *)
(* module_catalog.go and frigate_catalog.go (what may be queued),          *)
(* frigate_gateway.go and frigate_ui.go (Frigate's own writes, which must  *)
(* not run beside a module job), and the part of a job that decides        *)
(* whether an approved image may still be installed.  Frigate is the       *)
(* module; jobs of kind "other" are module jobs of other modules.  Jobs    *)
(* that are not module jobs are left out, except that they may fill the    *)
(* table.                                                                  *)
(***************************************************************************)
EXTENDS Naturals, FiniteSets

CONSTANTS
  Clients,        (* requests served at the same time                      *)
  NoClient,       (* nobody holds moduleSubmitMu                           *)
  Jobs,           (* module jobs not finished at the same time; a row      *)
                  (* is forgotten when its job has ended                   *)
  Versions,       (* releases of Frigate, 1 the oldest                     *)
  MaxPublished    (* bound: releases and moved tags                        *)

ASSUME AdmissionAssumption ==
  /\ IsFiniteSet(Clients) /\ NoClient \notin Clients
  /\ Versions \subseteq Nat \ {0} /\ 1 \in Versions
  /\ MaxPublished \in Nat

VARIABLES
  upstream,   (* upstream[v]: 0 before v is released, else the digest its  *)
              (* tag shows; a tag may be moved once                        *)
  req,        (* the requests                                              *)
  submitMu,   (* moduleSubmitMu: its holder                                *)
  job,        (* the rows of module jobs, with their worker                *)
  record      (* Frigate's row in the registry                             *)

admissionVars ==
  <<upstream, req, submitMu, job, record>>

NoImage == <<0, 0>>
ReleaseImages(digests) == {<<v, d>> : v \in Versions, d \in digests}
Official  == {<<v, upstream[v]>> : v \in {w \in Versions : upstream[w] # 0}}
(* What frigateReleaseStatus has ever shown: its cache and the dialog of a *)
(* browser may be arbitrarily old when the operator confirms.              *)
Published == {i \in ReleaseImages(1..2) : i[2] <= upstream[i[1]]}

(* A job's manifest names image; confirmed is what the operator saw or sent;  *)
(* fresh: that was official at some time while the job has been at work.   *)
NoJob == [status |-> "none", kind |-> "", phase |-> "",
          image |-> NoImage, confirmed |-> NoImage, fresh |-> FALSE]
Idle  == [pc |-> "idle", kind |-> "", image |-> NoImage, confirmed |-> NoImage, busy |-> FALSE,
          found |-> {}, known |-> {}]   (* the last two of a list only *)

ModuleKinds == {"install", "upgrade", "disable", "remove", "other"}     (* isModuleJob *)
WriteKinds  == {"gateway", "native ui"}

InStatus(status) == {j \in Jobs : job[j].status = status}
ActiveModuleJobs == InStatus("queued") \cup InStatus("running") \cup InStatus("cancel_requested")

AdmissionInit ==
  /\ upstream = [v \in Versions |-> IF v = 1 THEN 1 ELSE 0]
  /\ req = [c \in Clients |-> Idle] /\ submitMu = NoClient
  /\ job = [j \in Jobs |-> NoJob]
  /\ record = [status |-> "none", image |-> NoImage]

-----------------------------------------------------------------------------
(* The official release and what is shown of it.                           *)

(* A newer version is released, or the tag of a released one is moved.     *)
Publish ==
  /\ Cardinality(Published) <= MaxPublished
  /\ \E v \in Versions :
       /\ upstream[v] < 2 /\ \A w \in Versions : w < v => upstream[w] # 0
       /\ upstream' = [upstream EXCEPT ![v] = @ + 1]
       /\ job' = [j \in Jobs |-> IF job[j].phase = "claimed" /\ job[j].confirmed = <<v, upstream[v] + 1>>
                    THEN [job[j] EXCEPT !.fresh = TRUE] ELSE job[j]]
  /\ UNCHANGED <<req, submitMu, record>>

-----------------------------------------------------------------------------
(* The requests.                                                           *)

Advance(c, r) == req' = [req EXCEPT ![c] = r]
To(c, pc) == Advance(c, [req[c] EXCEPT !.pc = pc])
RowsStay == UNCHANGED <<upstream, job, record>>

(* queueFrigateMutation: the approved release is read again; an upgrade    *)
(* asks for a running module first.  What was shown is not consulted.      *)
Candidate(confirmed) == confirmed
Resolved(kind, image) ==
  /\ kind = "upgrade" => record.status = "enabled"
  /\ image \in Official

AskForRelease(c) ==
  /\ req[c].pc = "idle"
  /\ \E kind \in {"install", "upgrade"}, seen \in Published :
       /\ Resolved(kind, Candidate(seen))
       /\ Advance(c, [Idle EXCEPT !.pc = "submit", !.kind = kind, !.image = Candidate(seen),
                                  !.confirmed = seen])
  /\ RowsStay /\ UNCHANGED submitMu

(* moduleInstall takes a manifest as it comes: nothing is looked up until  *)
(* the job verifies it.                                                    *)
AskManifest(c) ==
  /\ req[c].pc = "idle"
  /\ \E image \in ReleaseImages(1..2) :
       Advance(c, [Idle EXCEPT !.pc = "submit", !.kind = "install", !.image = image, !.confirmed = image])
  /\ RowsStay /\ UNCHANGED submitMu

(* moduleControl and moduleRemove look for the row; the installation or    *)
(* upgrade of another module and gpu.prepare have checks of their own.     *)
AskModule(c) ==
  /\ req[c].pc = "idle"
  /\ \E kind \in {"disable", "remove", "other"} :
       /\ kind # "other" => record.status # "none"
       /\ Advance(c, [Idle EXCEPT !.pc = "submit", !.kind = kind])
  /\ RowsStay /\ UNCHANGED submitMu

(* frigateGateway and serveFrigateUI: the latter looks at the row before   *)
(* it takes the lock, the former after it.                                 *)
AskWrite(c) ==
  /\ req[c].pc = "idle"
  /\ \E kind \in WriteKinds :
       /\ kind = "native ui" => record.status = "enabled"
       /\ Advance(c, [Idle EXCEPT !.pc = "submit", !.kind = kind])
  /\ RowsStay /\ UNCHANGED submitMu

(* moduleOperations takes no lock.                                         *)
AskList(c) ==
  /\ req[c].pc = "idle"
  /\ Advance(c, [Idle EXCEPT !.pc = "queued", !.kind = "list", !.known = ActiveModuleJobs])
  /\ RowsStay /\ UNCHANGED submitMu

(* activeModuleJobs: one query for each status, in this order.             *)
After(query) ==
  CASE query = "queued" -> "running" [] query = "running" -> "cancel_requested" [] OTHER -> "listed"
Listed(c, query) ==
  LET r == [req[c] EXCEPT !.pc = After(query)] IN
  Advance(c, IF req[c].kind = "list" THEN [r EXCEPT !.found = @ \cup InStatus(query)]
                                     ELSE [r EXCEPT !.busy = @ \/ InStatus(query) # {}])

(* TryLock and the first query: the second of two requests is refused, it  *)
(* does not wait.                                                          *)
AdmitTogether(c) ==
  /\ req[c].pc = "submit" /\ Listed(c, "queued") /\ submitMu' = c
  /\ RowsStay
Admit(c) ==
  /\ req[c].pc = "submit"
  /\ IF submitMu # NoClient THEN Advance(c, Idle) /\ UNCHANGED submitMu
                            ELSE Listed(c, "queued") /\ submitMu' = c
  /\ RowsStay

ListActive(c) ==
  /\ req[c].pc \in {"queued", "running", "cancel_requested"}
  /\ Listed(c, req[c].pc) /\ UNCHANGED submitMu /\ RowsStay

(* 500 rows or more, which may be cut off, or an unreadable table.         *)
ListRefused(c) ==
  /\ req[c].pc \in {"queued", "running", "cancel_requested"}
  /\ Advance(c, Idle) /\ submitMu' = (IF submitMu = c THEN NoClient ELSE submitMu) /\ RowsStay

New(j) == job[j].status = "none"

(* submitModuleJob: Submit may fail; either way the lock is released.      *)
Submit(c) ==
  /\ req[c].pc = "listed" /\ req[c].kind \in ModuleKinds
  /\ \/ /\ ~req[c].busy
        /\ \E j \in Jobs :
             /\ New(j)
             /\ job' = [job EXCEPT ![j] = [NoJob EXCEPT !.status = "queued", !.kind = req[c].kind,
                                                        !.image = req[c].image,
                                                        !.confirmed = req[c].confirmed]]
     \/ UNCHANGED job
  /\ Advance(c, Idle) /\ submitMu' = NoClient
  /\ UNCHANGED <<upstream, record>>

(* The write is sent to the container while the lock is held.              *)
Forward(c) ==
  /\ req[c].pc = "listed" /\ req[c].kind \in WriteKinds
  /\ IF ~req[c].busy /\ (req[c].kind = "gateway" => record.status = "enabled")
     THEN To(c, "forwarding") /\ UNCHANGED submitMu
     ELSE Advance(c, Idle) /\ submitMu' = NoClient
  /\ RowsStay
Forwarded(c) ==
  /\ req[c].pc = "forwarding" /\ Advance(c, Idle) /\ submitMu' = NoClient
  /\ RowsStay

(* moduleOperations adds what has ended from a second list.                *)
Answer(c) ==
  /\ req[c].pc = "listed" /\ req[c].kind = "list" /\ Advance(c, Idle)
  /\ RowsStay /\ UNCHANGED submitMu

-----------------------------------------------------------------------------
(* The jobs.                                                               *)

Becomes(j, r) == job' = [job EXCEPT ![j] = r]
Served == UNCHANGED <<upstream, req, submitMu>>
End(j) ==
  /\ Becomes(j, NoJob)
  /\ req' = [c \in Clients |-> [req[c] EXCEPT !.known = @ \ {j}]]
  /\ UNCHANGED <<upstream, submitMu>>

Claim(j) ==
  /\ job[j].status = "queued"
  /\ Becomes(j, [job[j] EXCEPT !.status = "running",
                              !.phase = IF job[j].kind = "other" THEN "working" ELSE "claimed",
                              !.fresh = job[j].confirmed \in Official])
  /\ Served /\ UNCHANGED record

Cancel(j) ==
  /\ \/ job[j].status = "queued" /\ End(j)
     \/ job[j].status = "running" /\ Becomes(j, [job[j] EXCEPT !.status = "cancel_requested"]) /\ Served
  /\ UNCHANGED record

(* verifyOfficialFrigate and the checks of the registry; a job that fails  *)
(* any of them, or is cancelled, ends without effect.                      *)
AllowedUnverified(j) ==
  /\ job[j].kind = "install" => record.status = "none"
  /\ job[j].kind \in {"upgrade", "disable", "remove"} => record.status # "none"
Allowed(j) ==
  /\ job[j].kind \in {"install", "upgrade"} => job[j].image \in Official
  /\ job[j].kind = "install" => \/ record.status = "none"
                                \/ record = [status |-> "registered", image |-> job[j].image]
  /\ job[j].kind = "upgrade" => /\ record.status = "enabled"
                                /\ job[j].image[1] > record.image[1]
  /\ job[j].kind \in {"disable", "remove"} => record.status # "none"

VerifyJob(j) ==
  /\ job[j].phase = "claimed" /\ Allowed(j)
  /\ Becomes(j, [job[j] EXCEPT !.phase = "working"])
  /\ record' = IF job[j].kind = "install" THEN [status |-> "registered", image |-> job[j].image] ELSE record
  /\ Served
FailJob(j) == job[j].phase \in {"claimed", "working"} /\ End(j) /\ UNCHANGED record

(* The helper has answered and the registry writes what became of it.      *)
Effect(j) ==
  CASE job[j].kind \in {"install", "upgrade"} -> [status |-> "enabled", image |-> job[j].image]
    [] job[j].kind = "disable" -> [record EXCEPT !.status = "disabled"]
    [] job[j].kind = "remove"  -> [status |-> "none", image |-> NoImage]
    [] OTHER -> record
Complete(j) ==
  /\ job[j].phase = "working" /\ End(j) /\ record' = Effect(j)

(* Core restarts: requests are gone, browsers keep their dialogs, and      *)
(* RecoverInterruptedJobs queues an installation again.                    *)
Interrupted(j) ==
  IF job[j].status = "running" /\ job[j].kind = "install"
  THEN [job[j] EXCEPT !.status = "queued", !.phase = "", !.fresh = FALSE]
  ELSE IF job[j].status \in {"running", "cancel_requested"}
  THEN NoJob ELSE job[j]
CoreRestarts ==
  /\ job' = [j \in Jobs |-> Interrupted(j)]
  /\ req' = [c \in Clients |-> Idle] /\ submitMu' = NoClient
  /\ UNCHANGED <<upstream, record>>

AdmissionNext ==
  \/ Publish \/ CoreRestarts
  \/ \E c \in Clients :
       \/ AskForRelease(c) \/ AskManifest(c) \/ AskModule(c) \/ AskWrite(c) \/ AskList(c)
       \/ Admit(c) \/ ListActive(c) \/ ListRefused(c) \/ Submit(c) \/ Forward(c) \/ Forwarded(c)
       \/ Answer(c)
  \/ \E j \in Jobs :
       \/ Claim(j) \/ Cancel(j) \/ VerifyJob(j) \/ FailJob(j) \/ Complete(j)

AdmissionSpec == AdmissionInit /\ [][AdmissionNext]_admissionVars

-----------------------------------------------------------------------------
(* Types of the admission (moduleSubmitMu, JobRecord, ModuleRecord).       *)
AdmissionTypeOK ==
  /\ upstream \in [Versions -> 0..2]
  /\ submitMu \in Clients \cup {NoClient}
  /\ \A c \in Clients : req[c].found \subseteq Jobs /\ req[c].known \subseteq Jobs
  /\ \A j \in Jobs : job[j].image \in ReleaseImages(1..2) \cup {NoImage} /\ job[j].fresh \in BOOLEAN
  /\ record.status \in {"none", "registered", "enabled", "disabled"}

(* Two tabs, a job that moves from one status to the next while the three  *)
(* queries of activeModuleJobs run, a long table, a restart that queues an *)
(* installation again: there is never more than one module job queued or   *)
(* at work.                                                                *)
OneModuleJob == Cardinality(ActiveModuleJobs) <= 1

(* While a write of Frigate's own interface or of the gateway is under     *)
(* way, no module job is queued or at work: the comment in frigate_ui.go   *)
(* "Avoid native configuration/database mutations racing a backup/update". *)
NativeWriteAlone ==
  (\E c \in Clients : req[c].pc = "forwarding") => ActiveModuleJobs = {}

(* A module job that was active when moduleOperations was asked and has    *)
(* not ended since is found by one of its three queries: the page of the   *)
(* modules never shows a running operation as gone.                        *)
ListingIsComplete ==
  \A c \in Clients : req[c].pc = "listed" => req[c].known \subseteq req[c].found

(* One module job at a time, which every listing shows, and no write of    *)
(* Frigate's own beside it.                                                *)
AdmissionIsExclusive == OneModuleJob /\ NativeWriteAlone /\ ListingIsComplete

(* An image gets into the registry only if an operator confirmed or sent   *)
(* exactly it and if it was the official one at some time while this job was at    *)
(* work: neither a moved tag nor the catalogue's cache can substitute      *)
(* another (queueFrigateMutation, verifyOfficialFrigate).                  *)
InstalledWasApproved ==
  [][record'.image # record.image /\ record'.image # NoImage =>
       \E j \in Jobs : job[j].confirmed = record'.image /\ job[j].fresh]_admissionVars
==============================================================================
